---- MODULE Spec2Model ----
(***************************************************************************)
(* Model of the observability core of the SSH benchmarking lab:            *)
(*   observability/alert_system.py      AlertRule, AlertManager            *)
(*   observability/resource_monitor.py  ResourceMonitor                    *)
(* Time is counted in ticks of 1/TicksPerSecond seconds; time.time() is    *)
(* the variable clock, int(time.time()) is IntSec(clock).                  *)
(***************************************************************************)
EXTENDS Integers, Sequences, FiniteSets, TLC

\* ------------------------------------------------------------------ bounds
TicksPerSecond == 2     \* resolution of the clock
MaxClock == 2           \* the clock runs over 0..MaxClock ticks
MaxLoops == 2           \* monitoring threads start() may create in one run
MaxAlertsEver == 2      \* Alert objects created in one run
MaxFaults == 1          \* transport failures injected in one run
MaxMaxAlerts == 1       \* configured alerting.max_alerts ranges over 0..MaxMaxAlerts
RetentionTicks == 2     \* configured alerting.retention_days, in ticks

MaxSamples == 4         \* sample batches one run of the ResourceMonitor collects
MaxStops == 2           \* calls of ResourceMonitor.stop() in one run
MaxWriteFaults == 1     \* failed writes of the sample log injected in one run

MaxInterval == 3        \* sample_interval ranges over 0..MaxInterval ticks
MaxElapsed == 4         \* a collection phase takes 0..MaxElapsed ticks
MaxTicks == 2           \* sampler ticks whose timing is followed

MaxSeqLen == 3          \* length of the sequences the rule helpers are applied to
MaxValue == 2           \* their elements range over 0..MaxValue

None == -1              \* Python's None for a nullable number
Absent == -1            \* a key that is not in the metrics dict

Threads == 1..MaxLoops

VARIABLES
    clock,            \* time.time(), in ticks
    config_file,      \* the content of the file AlertManager.config_file names
    config,           \* AlertManager.config (the options the model reads)
    last_triggered,   \* AlertRule.last_triggered, per rule index
    heap,             \* every Alert object ever constructed, in creation order
    alerts,           \* AlertManager.alerts: references into heap
    alert_queue,      \* AlertManager.alert_queue: references into heap
    running,          \* AlertManager.running
    monitor_thread,   \* AlertManager.monitor_thread (0 = None)
    pc,               \* position of each monitoring thread
    idx,              \* per thread: index of the rule the for loop is at
    metrics,          \* per thread: the metrics dict of the current tick
    mainpc,           \* position of the caller of start()/stop()
    dispatched,       \* log of the channel invocations of _process_alert_queue
    alerts_file       \* the content of storage.alerts_file: the alerts written to it
                      \* (references into heap) and whether the JSON document is complete

\* locals of the calls in progress and what the last call of the public API returned
VARIABLES
    tnow,             \* per thread: the time.time() that AlertRule.trigger has read
    alerts_data,      \* the list _save_alerts has built and is about to write
    test,             \* the `--test` block of __main__: its position, test_metrics,
                      \* the index of the rule the for loop is at, the names printed
    ret               \* the value the last acknowledge/resolve/get_alerts call returned

amVars == <<clock, config_file, config, last_triggered, heap, alerts, alert_queue, running,
            monitor_thread, pc, idx, metrics, mainpc, dispatched,
            alerts_file>>

\* ResourceMonitor (resource_monitor.py). A sample is the list one tick extends
\* the buffer by, named by its number.
VARIABLES
    stop_event,       \* ResourceMonitor.stop_event is set
    rm_pc,            \* position of the monitoring thread ("none": no live thread)
    samples,          \* ResourceMonitor.samples, the in-memory buffer
    sample_log,       \* the records written to resource_samples_*.jsonl, in order
    nsamples,         \* samples collected so far
    rm_main,          \* position of the caller of start()/stop()
    stops,            \* calls of stop() that have returned
    write_faults,     \* writes of the sample log that failed
    tick_out,         \* the list _collect_all_metrics returned in the last tick
    rm_last           \* the last of start() / stop() that was called ("none": neither)

rmVars == <<stop_event, rm_pc, samples, sample_log, nsamples, rm_main, stops,
            write_faults, tick_out, rm_last>>

callVars == <<tnow, alerts_data, test, ret>>

\* the timing of the sampler's ticks
VARIABLES
    timing,           \* sample_interval, perf_counter (now), start_time and sleep_time
                      \* of the tick in progress, the ticks begun
    helper,           \* a rule whose condition calls a helper, the view it is evaluated
                      \* on, what the helper returned and what should_trigger returned
    series            \* the values of one measurement name and the entry
                      \* _calculate_statistics has computed for it

fnVars == <<timing, helper, series>>

\* the measurement collector
VARIABLES
    mc,               \* the ScientificMeasurementCollector: current_experiment,
                      \* resource_monitor, the ExperimentRuns and the monitor threads made
    mc_ret            \* the last call made on the collector and how it ended

smVars == <<mc, mc_ret>>

\* the benchmark orchestrator
VARIABLES
    bo,               \* the BenchmarkOrchestrator and the run in progress: stop_requested,
                      \* the SIGINT handler installed, the position of the main thread,
                      \* the results dictionary and the summary written
    exps              \* how far each configuration of the experiment matrix has got

boVars == <<bo, exps>>

opVars == <<callVars, fnVars, smVars, boVars>>

vars == <<amVars, rmVars, opVars>>

\* ------------------------------------------------------------- rule set
\* cooldown_seconds is counted in ticks, like every time of the model.
\* A condition is the Python expression of an AlertRule:
\*   name_gt      <key> > <th>                    the metric addressed by name
\*   metrics_get  metrics.get('<key>', 0) > <th>  the form of the built-in rules
Rules == <<
    [name |-> "cpu_high",  condition |-> [kind |-> "name_gt", key |-> "cpu", th |-> 90],
     severity |-> "warning",  actions |-> <<"console", "email">>, cooldown_seconds |-> 1],
    [name |-> "load_high", condition |-> [kind |-> "name_gt", key |-> "load", th |-> 1],
     severity |-> "critical", actions |-> <<"slack">>, cooldown_seconds |-> 0] >>

RuleIds == 1..Len(Rules)

\* The metric views _collect_current_metrics may return.
Views == { [cpu |-> 95, load |-> 0], [cpu |-> Absent, load |-> 2] }

NoView == [cpu |-> Absent, load |-> Absent]

IntSec(t) == t \div TicksPerSecond

\* the value of ret before any call: value is the boolean of the last
\* acknowledge_alert / resolve_alert, list the list of the last get_alerts
NoRet == [value |-> FALSE, list |-> <<>>]

\* ------------------------------------------------------- the rule helpers
\* A helper returns a number, written num/den, or raises.
Number(n) == [status |-> "ok", num |-> n, den |-> 1]

Raises == [status |-> "error", num |-> 0, den |-> 1]

RECURSIVE SumOf(_)
SumOf(values) == IF values = <<>> THEN 0 ELSE Head(values) + SumOf(Tail(values))

\* Python's max(values) / min(values) on a non-empty sequence
RECURSIVE MaxOf(_)
MaxOf(values) ==
    IF Len(values) = 1 THEN Head(values)
    ELSE LET m == MaxOf(Tail(values)) IN IF Head(values) > m THEN Head(values) ELSE m

RECURSIVE MinOf(_)
MinOf(values) ==
    IF Len(values) = 1 THEN Head(values)
    ELSE LET m == MinOf(Tail(values)) IN IF Head(values) < m THEN Head(values) ELSE m

\* `def avg(values): return sum(values) / len(values) if values else 0`
avg(values) ==
    IF values = <<>> THEN Number(0)
    ELSE [status |-> "ok", num |-> SumOf(values), den |-> Len(values)]

\* a max helper without the test for the empty sequence: max([]) raises
max_value_unguarded(values) == IF values = <<>> THEN Raises ELSE Number(MaxOf(values))

\* `def max_value(values): return max(values) if values else 0`
max_value(values) == IF values = <<>> THEN Number(0) ELSE Number(MaxOf(values))

\* `def min_value(values): return min(values) if values else 0`
min_value(values) == IF values = <<>> THEN Number(0) ELSE Number(MinOf(values))

\* `def count(values): return len(values)`
count(values) == Number(Len(values))

\* a call `<helper>(<values>)` or `<helper>(<values>, <keyword>=...)` in a
\* condition: the helpers take one positional parameter, a keyword argument
\* raises TypeError
CallHelper(name, values, kwargs) ==
    IF kwargs # {} THEN Raises
    ELSE CASE name = "avg" -> avg(values)
           [] name = "max" -> max_value(values)
           [] name = "min" -> min_value(values)
           [] name = "count" -> count(values)

\* eval(self.condition, {"__builtins__": {}}, local_vars): local_vars holds the
\* keys of the metrics dict, 'time' and the four helpers; the dict itself is not
\* bound to any name, so `metrics` raises NameError, as does an absent key.
\*   helper_gt    <helper>(<key>) > <th>           a helper applied to a metric
EvalCondition(cond, view) ==
    IF cond.kind = "name_gt"
    THEN IF view[cond.key] = Absent THEN "error"
         ELSE IF view[cond.key] > cond.th THEN "true" ELSE "false"
    ELSE IF cond.kind = "helper_gt"
    THEN IF cond.key \notin DOMAIN view THEN "error"
         ELSE LET r == CallHelper(cond.helper, view[cond.key], cond.kwargs) IN
              IF r.status = "error" THEN "error"
              ELSE IF r.num > cond.th * r.den THEN "true" ELSE "false"
    ELSE "error"

\* Python truthiness of self.last_triggered (None and 0.0 are falsy).
Truthy(lt) == lt # None /\ lt # 0

\* AlertRule.should_trigger without its try/except: the exception escapes
ShouldTriggerNoCatch(rule, view, lt, now) ==
    LET result == EvalCondition(rule.condition, view) IN
    IF result = "error" THEN "raise"
    ELSE IF result = "true" /\ Truthy(lt) /\ now - lt < rule.cooldown_seconds THEN "False"
    ELSE IF result = "true" THEN "True" ELSE "False"

\* AlertRule.should_trigger: "True" / "False" as returned, "raise" for an
\* exception that leaves the method
ShouldTrigger(rule, view, lt, now) ==
    LET result == EvalCondition(rule.condition, view) IN
    IF result = "error" THEN "False"
    ELSE IF result = "true" /\ Truthy(lt) /\ now - lt < rule.cooldown_seconds THEN "False"
    ELSE IF result = "true" THEN "True" ELSE "False"

\* Alert(...) as built by _trigger_alert
NewAlert(i, view, now) ==
    [id |-> <<Rules[i].name, IntSec(now)>>, severity |-> Rules[i].severity,
     timestamp |-> now, source |-> "alert_manager", metrics |-> view,
     acknowledged |-> FALSE, resolved |-> FALSE, rule |-> i]

\* Python's s[-m:]
SliceLast(s, m) ==
    LET start == IF m > 0 THEN (IF Len(s) - m > 0 THEN Len(s) - m ELSE 0)
                 ELSE IF -m < Len(s) THEN -m ELSE Len(s)
    IN SubSeq(s, start + 1, Len(s))

\* the retention filter of _cleanup_old_alerts
RetentionFilter(as, now) ==
    SelectSeq(as, LAMBDA a : heap[a].timestamp > now - config.retention_days)

\* a trim that drops only the oldest alert of an over-long store
MaxTrimDropOldest(as) ==
    IF Len(as) > config.max_alerts THEN Tail(as) ELSE as

\* the max-count trim of _cleanup_old_alerts
MaxTrim(as) ==
    IF Len(as) > config.max_alerts THEN SliceLast(as, config.max_alerts) ELSE as

\* one whole call of _cleanup_old_alerts at time now
Cleanup(as, now) == MaxTrim(RetentionFilter(as, now))

\* one channel adapter: _send_console_alert / _send_email_alert / _send_slack_alert;
\* _send_console_alert does not read notifications.console.enabled
SendResult(channel, fail) ==
    IF channel = "console" THEN (IF fail = "console" THEN "raised" ELSE "sent")
    ELSE IF ~config.notify[channel] THEN "disabled"
    ELSE IF fail = channel THEN "failed" ELSE "sent"

\* for action in self.rules[0].actions: ... ; an exception ends the loop
RECURSIVE SendAll(_, _, _)
SendAll(actions, k, fail) ==
    IF k > Len(actions) THEN <<>>
    ELSE LET r == SendResult(actions[k], fail) IN
         IF r = "raised" THEN <<[channel |-> actions[k], result |-> r]>>
         ELSE <<[channel |-> actions[k], result |-> r]>> \o SendAll(actions, k + 1, fail)

DispatchActions == Rules[1].actions

RECURSIVE CountFaults(_)
CountFaults(log) ==
    IF log = <<>> THEN 0
    ELSE (IF \E k \in 1..Len(Head(log).sends) :
                Head(log).sends[k].result \in {"failed", "raised"} THEN 1 ELSE 0)
         + CountFaults(Tail(log))

Raised(sends) == \E k \in 1..Len(sends) : sends[k].result = "raised"

\* self.alert_queue.put(alert) on queue.Queue(): maxsize is 0, so the queue is
\* never full and put neither blocks nor drops
Put(q, a) == Append(q, a)

\* a drain that puts an Alert back when one of its sends did not succeed
DequeuedOrRetried(q, sends) ==
    IF \E k \in 1..Len(sends) : sends[k].result \in {"failed", "raised"}
    THEN Append(Tail(q), Head(q))
    ELSE Tail(q)

\* the queue after the turn of _process_alert_queue that took its head with
\* get_nowait() and made `sends`: nothing is put back
Dequeued(q, sends) == Tail(q)

\* ------------------------------------------------------- metric sources
\* the sources of _collect_all_metrics in call order, and the metric groups each
\* of them fills in, in the order of the assignments
Sources == <<"system", "process", "network", "container", "ansible", "hardware">>

Groups == [system    |-> <<"cpu", "memory", "disk">>,
           process   |-> <<"processes", "total_relevant_processes">>,
           network   |-> <<"overall", "interfaces", "connections">>,
           container |-> <<"resources">>,
           ansible   |-> <<"processes">>,
           hardware  |-> <<"temperatures", "fans", "battery">>]

\* what may go wrong in one tick: nothing, or one source raising while it
\* computes its group number `at`
NoFault == [source |-> "none", at |-> 0]

SourceFaults ==
    { NoFault,
      [source |-> "system", at |-> 2],
      [source |-> "process", at |-> 1],
      [source |-> "network", at |-> 1], [source |-> "network", at |-> 3],
      [source |-> "container", at |-> 1],
      [source |-> "ansible", at |-> 1],
      [source |-> "hardware", at |-> 1] }

GroupSet(s, n) == { Groups[s][k] : k \in 1..n }

SourceIndex(s) == CHOOSE k \in 1..Len(Sources) : Sources[k] = s

\* collection in which a source that raises takes the rest of the tick with it
SourceSamplesAbort(s, f) ==
    IF f.source # "none" /\ SourceIndex(s) >= SourceIndex(f.source)
    THEN <<>>
    ELSE <<[sample_type |-> s, metrics |-> GroupSet(s, Len(Groups[s]))]>>

\* the samples one source contributes to the tick: _collect_system_metrics,
\* _collect_process_metrics and _collect_network_metrics return a sample with
\* the groups assigned before the exception; the other three return no sample
\* when they raise
SourceSamples(s, f) ==
    IF f.source # s
    THEN <<[sample_type |-> s, metrics |-> GroupSet(s, Len(Groups[s]))]>>
    ELSE IF s \in {"system", "process", "network"}
         THEN <<[sample_type |-> s, metrics |-> GroupSet(s, f.at - 1)]>>
         ELSE <<>>

\* _collect_all_metrics
RECURSIVE CollectFrom(_, _)
CollectFrom(k, f) ==
    IF k > Len(Sources) THEN <<>>
    ELSE SourceSamples(Sources[k], f) \o CollectFrom(k + 1, f)

CollectAll(f) == CollectFrom(1, f)

\* the flush threshold of _monitoring_loop (1000 samples in the source, counted
\* here in per-tick sample lists)
FlushThreshold == 2

\* ------------------------------------------------------------------ Init
RMInit ==
    /\ stop_event = FALSE
    /\ rm_pc = "none"
    /\ samples = <<>>
    /\ sample_log = <<>>
    /\ nsamples = 0
    /\ rm_main = "idle"
    /\ stops = 0
    /\ write_faults = 0
    /\ tick_out = <<>>
    /\ rm_last = "none"

\* ------------------------------------------------- the built-in rule set
\* default_rules of _load_rules. Every condition is written against the name
\* `metrics`: metrics.get('<key>', <default>) <op> <th>; high_temperature is
\* max(metrics.get('temperatures', {}).get('core', []), default=0) > 85.
DefaultRules == <<
    [name |-> "high_cpu_usage", severity |-> "warning",
     condition |-> [kind |-> "metrics_get", key |-> "cpu_percent_total", op |-> ">", th |-> 90],
     actions |-> <<"console", "email">>, cooldown_seconds |-> 300 * TicksPerSecond],
    [name |-> "high_memory_usage", severity |-> "critical",
     condition |-> [kind |-> "metrics_get", key |-> "memory_used_percent", op |-> ">", th |-> 95],
     actions |-> <<"console", "email">>, cooldown_seconds |-> 300 * TicksPerSecond],
    [name |-> "high_error_rate", severity |-> "warning",
     condition |-> [kind |-> "metrics_get", key |-> "error_rate", op |-> ">", th |-> 10],
     actions |-> <<"console", "slack">>, cooldown_seconds |-> 60 * TicksPerSecond],
    [name |-> "slow_ssh_connections", severity |-> "warning",
     condition |-> [kind |-> "metrics_get", key |-> "ssh_connection_time_avg_ms", op |-> ">",
                    th |-> 2000],
     actions |-> <<"console">>, cooldown_seconds |-> 60 * TicksPerSecond],
    [name |-> "container_unreachable", severity |-> "critical",
     condition |-> [kind |-> "metrics_get", key |-> "unreachable_containers", op |-> ">", th |-> 0],
     actions |-> <<"console", "email", "slack">>, cooldown_seconds |-> 30 * TicksPerSecond],
    [name |-> "low_disk_space", severity |-> "warning",
     condition |-> [kind |-> "metrics_get", key |-> "disk_free_percent", op |-> "<", th |-> 10],
     actions |-> <<"console", "email">>, cooldown_seconds |-> 3600 * TicksPerSecond],
    [name |-> "high_temperature", severity |-> "warning",
     condition |-> [kind |-> "max_metrics_get", key |-> "temperatures_core", op |-> ">", th |-> 85],
     actions |-> <<"console">>, cooldown_seconds |-> 300 * TicksPerSecond],
    [name |-> "network_packet_loss", severity |-> "warning",
     condition |-> [kind |-> "metrics_get", key |-> "network_packet_loss_percent", op |-> ">",
                    th |-> 5],
     actions |-> <<"console", "email">>, cooldown_seconds |-> 60 * TicksPerSecond],
    [name |-> "benchmark_timeout", severity |-> "info",
     condition |-> [kind |-> "metrics_get", key |-> "benchmark_duration_seconds", op |-> ">",
                    th |-> 3600],
     actions |-> <<"console">>, cooldown_seconds |-> 3600 * TicksPerSecond],
    [name |-> "high_variance", severity |-> "warning",
     condition |-> [kind |-> "metrics_get", key |-> "coefficient_of_variation", op |-> ">",
                    th |-> 20],
     actions |-> <<"console">>, cooldown_seconds |-> 300 * TicksPerSecond] >>

DefaultKeys == { DefaultRules[i].condition.key : i \in 1..Len(DefaultRules) }

NoTestView == [k \in DefaultKeys |-> Absent]

\* test_metrics of the `--test` block, and variations of it: other values for
\* the cpu, memory and error-rate keys, and a core temperature
TestViews ==
    { [k \in DefaultKeys |->
         CASE k = "cpu_percent_total" -> cpu
           [] k = "memory_used_percent" -> mem
           [] k = "error_rate" -> err
           [] k = "ssh_connection_time_avg_ms" -> 2500
           [] k = "temperatures_core" -> temp
           [] OTHER -> Absent] :
        cpu \in {95, 80}, mem \in {80, 97}, err \in {15, Absent}, temp \in {Absent, 90} }

\* the state of the `--test` block before it runs
NoTest == [pc |-> "idle", metrics |-> NoTestView, i |-> 0, would_trigger |-> <<>>]

\* Alert(...) as built by _trigger_alert for a built-in rule
DefaultAlert(i, view, now) ==
    [id |-> <<DefaultRules[i].name, IntSec(now)>>, severity |-> DefaultRules[i].severity,
     timestamp |-> now, source |-> "alert_manager", metrics |-> view,
     acknowledged |-> FALSE, resolved |-> FALSE, rule |-> i]

\* --------------------------------------------------------- configuration
\* default_config of _load_config: max_alerts 1000, retention_days 30 (in
\* ticks), email and slack disabled
DefaultConfig ==
    [max_alerts |-> 1000, retention_days |-> 30 * 86400 * TicksPerSecond,
     notify |-> [email |-> FALSE, slack |-> FALSE, console |-> TRUE]]

\* self.config while __init__ has not yet assigned it
NoConfig ==
    [max_alerts |-> None, retention_days |-> None,
     notify |-> [email |-> FALSE, slack |-> FALSE, console |-> TRUE]]

\* the files that parse to a mapping with complete sections
ParsedFiles ==
    { [kind |-> "mapping", value |-> c] :
        c \in [max_alerts : 0..MaxMaxAlerts, retention_days : {RetentionTicks},
               notify : { [email |-> FALSE, slack |-> FALSE, console |-> TRUE],
                          [email |-> TRUE, slack |-> TRUE, console |-> TRUE] }] }

\* files whose notifications section sets console.enabled to false
ConsoleOffFiles ==
    { [kind |-> "mapping", value |-> c] :
        c \in [max_alerts : {MaxMaxAlerts}, retention_days : {RetentionTicks},
               notify : { [email |-> FALSE, slack |-> FALSE, console |-> FALSE],
                          [email |-> TRUE, slack |-> FALSE, console |-> FALSE] }] }

\* what config_file may name: no file, a file yaml.safe_load cannot parse (or
\* that does not hold a mapping), or a mapping
ConfigFiles == { [kind |-> "absent"], [kind |-> "unparsable"] } \cup ParsedFiles

\* a _load_config that never reads the file
LoadConfigIgnoresFile(f) == DefaultConfig

\* _load_config: the sections of the file replace those of default_config; an
\* absent file, or one that makes yaml.safe_load or dict.update raise, leaves
\* the defaults (the exception is caught and a warning printed)
LoadConfig(f) == IF f.kind = "mapping" THEN f.value ELSE DefaultConfig

\* the alerts file before the first save
NoFile == [complete |-> TRUE, alerts |-> <<>>]

AMInit ==
    /\ clock = 0
    /\ config_file \in ParsedFiles
    /\ config = LoadConfig(config_file)
    /\ last_triggered = [i \in RuleIds |-> None]
    /\ heap = <<>>
    /\ alerts = <<>>
    /\ alert_queue = <<>>
    /\ running = FALSE
    /\ monitor_thread = 0
    /\ pc = [t \in Threads |-> "unborn"]
    /\ idx = [t \in Threads |-> 0]
    /\ metrics = [t \in Threads |-> NoView]
    /\ mainpc = "idle"
    /\ dispatched = <<>>
    /\ alerts_file = NoFile
    /\ tnow = [t \in Threads |-> None]
    /\ alerts_data = <<>>
    /\ test = NoTest
    /\ ret = NoRet

\* ---------------------------------------------------------- tick timing
\* `sleep_time = max(0, self.sample_interval - (elapsed_ns / 1e9))` without the max
SleepTimeUnclamped(interval, elapsed) == interval - elapsed

\* `sleep_time = max(0, self.sample_interval - (elapsed_ns / 1e9))`
SleepTime(interval, elapsed) ==
    IF interval - elapsed > 0 THEN interval - elapsed ELSE 0

\* no tick is being timed
NoTiming == [sample_interval |-> 0, phase |-> "idle", now |-> 0, start_time |-> 0,
             sleep_time |-> 0, ticks |-> 0]

\* the sequences a helper is applied to
RECURSIVE SeqsUpTo(_)
SeqsUpTo(n) ==
    IF n = 0 THEN { <<>> }
    ELSE SeqsUpTo(n - 1) \cup [1..n -> 0..MaxValue]

\* a rule `<helper>(values) > th`, or `<helper>(values, default=0) > th`
HelperRule(h, kw, th) ==
    [name |-> "helper_rule", severity |-> "warning", actions |-> <<"console">>,
     cooldown_seconds |-> 0,
     condition |-> [kind |-> "helper_gt", helper |-> h, key |-> "values",
                    kwargs |-> kw, th |-> th]]

\* no rule with a helper has been evaluated
NoHelper == [rule |-> HelperRule("avg", {}, 0), view |-> [values |-> <<>>],
             result |-> Raises, fired |-> "none"]

\* ----------------------------------------------------------- statistics
\* Numbers are written num/den. std_dev and cv_percent are kept as their
\* squares, so that no square root has to be taken.
Zero == [num |-> 0, den |-> 1]

SumSq(values) == SumOf([k \in 1..Len(values) |-> values[k] * values[k]])

\* statistics.mean(values)
Mean(values) == [num |-> SumOf(values), den |-> Len(values)]

\* statistics.stdev(values) squared: the sample variance, for len(values) > 1
StdevSq(values) ==
    [num |-> Len(values) * SumSq(values) - SumOf(values) * SumOf(values),
     den |-> Len(values) * (Len(values) - 1)]

\* (statistics.stdev(values) / statistics.mean(values) * 100) squared
CvPercentSq(values) ==
    LET m == Mean(values)
        v == StdevSq(values)
    IN [num |-> v.num * m.den * m.den * 10000, den |-> v.den * m.num * m.num]

\* the entry of a name statistics_results does not hold
NoStats == [reported |-> FALSE, count |-> 0, mean |-> Zero, std_dev_sq |-> Zero,
            cv_percent_sq |-> Zero]

\* _calculate_statistics, the body of `for name, values in measurement_values.items()`:
\* the entry is built under `if len(values) > 1`
SeriesStats(values) ==
    IF Len(values) > 1
    THEN [reported |-> TRUE, count |-> Len(values), mean |-> Mean(values),
          std_dev_sq |-> IF Len(values) > 1 THEN StdevSq(values) ELSE Zero,
          cv_percent_sq |-> IF Mean(values).num # 0 THEN CvPercentSq(values) ELSE Zero]
    ELSE NoStats

\* no series has been given to _calculate_statistics
NoSeries == [values |-> <<>>, done |-> FALSE, stats |-> NoStats]

\* ------------------------------------------------- measurement collector
MaxExperiments == 2    \* start_experiment calls
MaxCalls == 4          \* calls made on the collector

\* ExperimentRun(...) as start_experiment builds it
NewRun == [measurement_points |-> <<>>, end_time_set |-> FALSE,
           resource_samples_set |-> FALSE, saved |-> FALSE, queued |-> FALSE]

\* ScientificMeasurementCollector.__init__; 0 stands for None. A monitor
\* thread is "alive", "stopping" (stop_event set, run() not yet returned)
\* or "ended".
NewCollector == [current_experiment |-> 0, resource_monitor |-> 0,
                 runs |-> <<>>, threads |-> <<>>]

NoCall == [op |-> "none", status |-> "none", error |-> "none", n |-> 0]

\* -------------------------------------------------- benchmark orchestrator
TotalExperiments == 5  \* len(generate_experiment_matrix())
MaxParallel == 2       \* max_parallel
MaxInterrupts == 2     \* SIGINT / SIGTERM delivered to the process

Configs == 1..TotalExperiments

\* batch_size = max_parallel * 2
BatchSize == MaxParallel * 2

NoResults == [completed |-> 0, successful |-> 0, failed |-> 0, cancelled |-> 0]

\* BenchmarkOrchestrator.__init__ and no run begun. handler is the function
\* signal.signal last installed for SIGINT and SIGTERM.
NewOrchestrator == [mode |-> "none", pc |-> "idle", i |-> 0, stop_requested |-> FALSE,
                    handler |-> "orchestrator", interrupts |-> 0,
                    results |-> NoResults, summary_saved |-> FALSE, summary |-> NoResults]

NoExperiment == [st |-> "pending", yielded |-> FALSE]

BoInit ==
    /\ bo = NewOrchestrator
    /\ exps = [e \in Configs |-> NoExperiment]

SmInit ==
    /\ mc = NewCollector
    /\ mc_ret = NoCall
    /\ BoInit


\* `os.getpid() if 'os' in sys.modules else 0`: the module never imports os
\* (the interpreter has, so the test is true) and the name raises NameError
os_getpid == [status |-> "error", value |-> 0]

CallReturned(c) == [mc |-> c, status |-> "returned", error |-> "none"]

CallRaised(c, e) == [mc |-> c, status |-> "raised", error |-> e]

\* ResourceMonitor.stop: stop_event.set(); join(timeout=5). joined says
\* whether run() returned within the timeout.
MonitorStop(c, joined) ==
    LET t == c.resource_monitor
    IN [c EXCEPT !.threads[t] = IF @ = "ended" \/ joined THEN "ended" ELSE "stopping"]

record_measurement(c, name) ==
    IF c.current_experiment = 0 THEN CallRaised(c, "RuntimeError")
    ELSE IF os_getpid.status = "error" THEN CallRaised(c, "NameError")
    ELSE CallReturned([c EXCEPT !.runs[c.current_experiment].measurement_points
                                  = Append(@, name)])

stop_experiment(c, joined) ==
    IF c.current_experiment = 0 THEN CallRaised(c, "RuntimeError")
    ELSE LET e  == c.current_experiment
             c1 == IF c.resource_monitor # 0
                   THEN [MonitorStop(c, joined) EXCEPT !.runs[e].resource_samples_set = TRUE]
                   ELSE c
             c2 == [c1 EXCEPT !.runs[e].end_time_set = TRUE]
             r  == record_measurement(c2, "experiment_end")
         IN IF r.status = "raised" THEN r
            \* _calculate_statistics, _save_experiment_results, experiment_queue.put,
            \* then results['duration_seconds'], a key results does not have
            ELSE CallRaised([r.mc EXCEPT !.runs[e].saved = TRUE, !.runs[e].queued = TRUE],
                        "KeyError")

\* _finalize_experiment: try: stop_experiment() except: pass
finalize_experiment(c, joined) ==
    IF c.current_experiment # 0 THEN stop_experiment(c, joined).mc ELSE c

start_experiment(c, joined) ==
    LET c0 == IF c.current_experiment # 0 THEN finalize_experiment(c, joined) ELSE c
        c1 == [c0 EXCEPT !.runs = Append(@, NewRun),
                         !.current_experiment = Len(c0.runs) + 1]
        c2 == [c1 EXCEPT !.threads = Append(@, "alive"),
                         !.resource_monitor = Len(c1.threads) + 1]
    IN record_measurement(c2, "experiment_start")

EndCall(op, r) ==
    /\ mc' = r.mc
    /\ mc_ret' = [op |-> op, status |-> r.status, error |-> r.error, n |-> mc_ret.n + 1]

StartExperiment ==
    /\ mc_ret.n < MaxCalls
    /\ Len(mc.runs) < MaxExperiments
    /\ \E joined \in BOOLEAN : EndCall("start_experiment", start_experiment(mc, joined))
    /\ UNCHANGED <<amVars, rmVars, callVars, fnVars, boVars>>

RecordMeasurement ==
    /\ mc_ret.n < MaxCalls
    /\ \E name \in {"latency", "throughput"} :
          EndCall("record_measurement", record_measurement(mc, name))
    /\ UNCHANGED <<amVars, rmVars, callVars, fnVars, boVars>>

StopExperiment ==
    /\ mc_ret.n < MaxCalls
    /\ \E joined \in BOOLEAN : EndCall("stop_experiment", stop_experiment(mc, joined))
    /\ UNCHANGED <<amVars, rmVars, callVars, fnVars, boVars>>

\* ResourceMonitor.run sees stop_event set and returns
MonitorRunEnds ==
    /\ \E t \in DOMAIN mc.threads :
          /\ mc.threads[t] = "stopping"
          /\ mc' = [mc EXCEPT !.threads[t] = "ended"]
    /\ UNCHANGED <<amVars, rmVars, callVars, fnVars, boVars, mc_ret>>

\* ----------------------------------------- the orchestrator's experiments
\* run_single_experiment that does not look at stop_requested
SingleNeverCancelled(stop_requested) == FALSE

\* run_single_experiment: `if self.stop_requested: return {"status": "cancelled", ...}`
SingleCancelled(stop_requested) == stop_requested

\* the try block of run_single_experiment. ScientificMeasurementCollector(...)
\* calls signal.signal, which raises ValueError outside the main thread;
\* start_experiment, record_measurement and stop_experiment are the
\* collector's; any exception gives status "error".
run_experiment(main_thread, exit_ok) ==
    IF ~main_thread THEN "error"
    ELSE LET s == start_experiment(NewCollector, TRUE)
             r == record_measurement(s.mc, "workload_completion")
             t == stop_experiment(r.mc, TRUE)
         IN IF s.status = "raised" \/ r.status = "raised" \/ t.status = "raised"
            THEN "error"
            ELSE IF exit_ok THEN "success" ELSE "failed"

\* completed += 1 and the counter of the result's status
Counted(results, status) ==
    [completed  |-> results.completed + 1,
     successful |-> results.successful + (IF status = "success" THEN 1 ELSE 0),
     failed     |-> results.failed + (IF status = "failed" THEN 1 ELSE 0),
     cancelled  |-> results.cancelled + (IF status = "cancelled" THEN 1 ELSE 0)]

Finished(e) == exps[e].st \in {"cancelled", "error", "success", "failed"}

BoRunning == bo.pc \notin {"idle", "returned", "exited"}

\* run_sequential_experiments / run_parallel_experiments is called
BoBegin ==
    /\ bo.pc = "idle"
    /\ \E m \in {"sequential", "parallel"} :
          bo' = [bo EXCEPT !.mode = m, !.pc = IF m = "sequential" THEN "loop" ELSE "batch"]
    /\ UNCHANGED <<amVars, rmVars, callVars, fnVars, smVars, exps>>

\* run_sequential_experiments: the head of the for loop
SeqLoop ==
    /\ bo.pc = "loop"
    /\ IF bo.i = TotalExperiments \/ bo.stop_requested
       THEN /\ bo' = [bo EXCEPT !.pc = "save"]
            /\ UNCHANGED exps
       ELSE /\ bo' = [bo EXCEPT !.i = @ + 1, !.pc = "single"]
            /\ exps' = [exps EXCEPT ![bo.i + 1].st = "called"]
    /\ UNCHANGED <<amVars, rmVars, callVars, fnVars, smVars>>

\* run_single_experiment in the main thread: the test of stop_requested
SeqSingle ==
    /\ bo.pc = "single"
    /\ IF SingleCancelled(bo.stop_requested)
       THEN /\ exps' = [exps EXCEPT ![bo.i].st = "cancelled"]
            /\ bo' = [bo EXCEPT !.results = Counted(@, "cancelled"), !.pc = "loop"]
       ELSE /\ exps' = [exps EXCEPT ![bo.i].st = "started"]
            /\ bo' = [bo EXCEPT !.pc = "run"]
    /\ UNCHANGED <<amVars, rmVars, callVars, fnVars, smVars>>

\* run_single_experiment in the main thread: the try block. The collector's
\* __init__ installs its own _signal_handler.
SeqRun ==
    /\ bo.pc = "run"
    /\ \E exit_ok \in BOOLEAN :
          LET status == run_experiment(TRUE, exit_ok)
          IN /\ exps' = [exps EXCEPT ![bo.i].st = status]
             /\ bo' = [bo EXCEPT !.handler = "collector",
                                 !.results = Counted(@, status), !.pc = "loop"]
    /\ UNCHANGED <<amVars, rmVars, callVars, fnVars, smVars>>

\* _save_summary and the return of the run
SaveSummary ==
    /\ bo.pc = "save"
    /\ bo' = [bo EXCEPT !.summary_saved = TRUE, !.summary = bo.results, !.pc = "returned"]
    /\ UNCHANGED <<amVars, rmVars, callVars, fnVars, smVars, exps>>

\* the configurations of the batch that begins after bo.i
Batch == {e \in Configs : bo.i < e /\ e <= bo.i + BatchSize}

\* run_parallel_experiments: the head of the for loop and executor.submit
\* for every configuration of the batch
ParBatch ==
    /\ bo.pc = "batch"
    /\ IF bo.i >= TotalExperiments \/ bo.stop_requested
       THEN /\ bo' = [bo EXCEPT !.pc = "save"]
            /\ UNCHANGED exps
       ELSE /\ bo' = [bo EXCEPT !.pc = "collect"]
            /\ exps' = [e \in Configs |->
                          IF e \in Batch THEN [exps[e] EXCEPT !.st = "queued"] ELSE exps[e]]
    /\ UNCHANGED <<amVars, rmVars, callVars, fnVars, smVars>>

\* a worker of the pool takes the oldest submitted call and
\* run_single_experiment tests stop_requested
WorkerTake ==
    /\ \E e \in Configs :
          /\ exps[e].st = "queued"
          /\ \A f \in Configs : exps[f].st = "queued" => e <= f
          /\ Cardinality({f \in Configs : exps[f].st = "started"}) < MaxParallel
          /\ exps' = [exps EXCEPT ![e].st = IF SingleCancelled(bo.stop_requested)
                                            THEN "cancelled" ELSE "started"]
    /\ UNCHANGED <<amVars, rmVars, callVars, fnVars, smVars, bo>>

\* run_single_experiment in a worker: the try block
WorkerRun ==
    /\ \E e \in Configs, exit_ok \in BOOLEAN :
          /\ exps[e].st = "started"
          /\ bo.mode = "parallel"
          /\ exps' = [exps EXCEPT ![e].st = run_experiment(FALSE, exit_ok)]
    /\ UNCHANGED <<amVars, rmVars, callVars, fnVars, smVars, bo>>

\* as_completed yields a finished future: dropped when stop_requested,
\* counted otherwise (future.result never raises: run_single_experiment
\* catches every Exception)
ParCollect ==
    /\ bo.pc = "collect"
    /\ \E e \in Batch :
          /\ Finished(e)
          /\ ~exps[e].yielded
          /\ exps' = [exps EXCEPT ![e].yielded = TRUE]
          /\ bo' = IF bo.stop_requested THEN bo
                   ELSE [bo EXCEPT !.results = Counted(@, exps[e].st)]
    /\ UNCHANGED <<amVars, rmVars, callVars, fnVars, smVars>>

\* every future of the batch has been yielded; the executor shuts down
ParBatchEnd ==
    /\ bo.pc = "collect"
    /\ \A e \in Batch : exps[e].yielded
    /\ bo' = [bo EXCEPT !.i = @ + BatchSize, !.pc = "batch"]
    /\ UNCHANGED <<amVars, rmVars, callVars, fnVars, smVars, exps>>

\* SIGINT or SIGTERM: _handle_interrupt sets stop_requested; the collector's
\* _signal_handler, once installed, finalizes and calls sys.exit(0)
Interrupt ==
    /\ BoRunning
    /\ bo.interrupts < MaxInterrupts
    /\ bo' = IF bo.handler = "orchestrator"
             THEN [bo EXCEPT !.interrupts = @ + 1, !.stop_requested = TRUE]
             ELSE [bo EXCEPT !.interrupts = @ + 1, !.pc = "exited"]
    /\ UNCHANGED <<amVars, rmVars, callVars, fnVars, smVars, exps>>

NextOrchestrator ==
    \/ BoBegin
    \/ SeqLoop
    \/ SeqSingle
    \/ SeqRun
    \/ SaveSummary
    \/ ParBatch
    \/ WorkerTake
    \/ WorkerRun
    \/ ParCollect
    \/ ParBatchEnd
    \/ Interrupt

FnInit ==
    /\ timing = NoTiming
    /\ helper = NoHelper
    /\ series = NoSeries
    /\ SmInit

Init == AMInit /\ RMInit /\ FnInit

\* --------------------------------------------------------------- actions
\* time passes
Tick ==
    /\ clock < MaxClock
    /\ clock' = clock + 1
    /\ UNCHANGED <<config_file, config, last_triggered, heap, alerts, alert_queue,
                   running, monitor_thread, pc, idx, metrics, mainpc, dispatched,
                   alerts_file>>
    /\ UNCHANGED rmVars
    /\ UNCHANGED opVars

\* AlertManager.start
Start ==
    /\ mainpc = "idle"
    /\ IF running
       THEN UNCHANGED <<running, monitor_thread, pc>>
       ELSE \E t \in Threads :
              /\ pc[t] = "unborn"
              /\ \A u \in Threads : u < t => pc[u] # "unborn"
              /\ running' = TRUE
              /\ monitor_thread' = t
              /\ pc' = [pc EXCEPT ![t] = "while"]
    /\ UNCHANGED <<clock, config_file, config, last_triggered, heap, alerts, alert_queue, idx,
                   metrics, mainpc, dispatched, alerts_file>>
    /\ UNCHANGED rmVars
    /\ UNCHANGED opVars

\* AlertManager.stop, up to the join
StopBegin ==
    /\ mainpc = "idle"
    /\ running' = FALSE
    /\ mainpc' = "join"
    /\ UNCHANGED <<clock, config_file, config, last_triggered, heap, alerts, alert_queue,
                   monitor_thread, pc, idx, metrics, dispatched, alerts_file>>
    /\ UNCHANGED rmVars
    /\ UNCHANGED opVars

\* AlertManager.stop: join(timeout=5) returns (the thread ended, or the timeout
\* passed while it was still in its tick or its sleep), then _save_alerts, taken
\* as one step that writes the file
StopJoin ==
    /\ mainpc = "join"
    /\ mainpc' = "idle"
    /\ alerts_file' = [complete |-> TRUE, alerts |-> alerts]
    /\ UNCHANGED <<clock, config_file, config, last_triggered, heap, alerts, alert_queue,
                   running, monitor_thread, pc, idx, metrics, dispatched>>
    /\ UNCHANGED rmVars
    /\ UNCHANGED opVars

\* The same call of stop() with _save_alerts in its steps. First the join
\* returns and _save_alerts runs up to `open(alerts_file, 'w')`: alerts_data is
\* built and the file is truncated
StopJoinOpen ==
    /\ mainpc = "join"
    /\ mainpc' = "dump"
    /\ alerts_data' = alerts
    /\ alerts_file' = [complete |-> FALSE, alerts |-> <<>>]
    /\ UNCHANGED <<clock, config_file, config, last_triggered, heap, alerts, alert_queue,
                   running, monitor_thread, pc, idx, metrics, dispatched>>
    /\ UNCHANGED rmVars
    /\ UNCHANGED <<tnow, test, ret, fnVars, smVars, boVars>>

\* json.dump(alerts_data, f): the whole document reaches the file, or the
\* write raises after n of the alerts have
Dumped(data, ok, n) ==
    IF ok THEN [complete |-> TRUE, alerts |-> data]
    ELSE [complete |-> FALSE, alerts |-> SubSeq(data, 1, n)]

\* AlertManager.stop: _save_alerts, json.dump and the end of the with block (or
\* the `except Exception`); stop() returns
SaveDump ==
    /\ mainpc = "dump"
    /\ \E ok \in BOOLEAN : \E n \in 0..Len(alerts_data) :
          /\ (ok => n = 0)
          /\ alerts_file' = Dumped(alerts_data, ok, n)
    /\ alerts_data' = <<>>
    /\ mainpc' = "idle"
    /\ UNCHANGED <<clock, config_file, config, last_triggered, heap, alerts, alert_queue,
                   running, monitor_thread, pc, idx, metrics, dispatched>>
    /\ UNCHANGED rmVars
    /\ UNCHANGED <<tnow, test, ret, fnVars, smVars, boVars>>

\* _monitoring_loop: `while self.running` and _collect_current_metrics
LoopTest(t) ==
    /\ pc[t] = "while"
    /\ IF running
       THEN \E v \in Views :
              /\ metrics' = [metrics EXCEPT ![t] = v]
              /\ idx' = [idx EXCEPT ![t] = 1]
              /\ pc' = [pc EXCEPT ![t] = "eval"]
       ELSE /\ pc' = [pc EXCEPT ![t] = "dead"]
            /\ UNCHANGED <<metrics, idx>>
    /\ UNCHANGED <<clock, config_file, config, last_triggered, heap, alerts, alert_queue, running,
                   monitor_thread, mainpc, dispatched, alerts_file>>
    /\ UNCHANGED rmVars
    /\ UNCHANGED opVars

\* where the for loop over self.rules goes after rule i
AfterRule(t, i) ==
    IF i < Len(Rules)
    THEN /\ idx' = [idx EXCEPT ![t] = i + 1]
         /\ pc' = [pc EXCEPT ![t] = "eval"]
         /\ UNCHANGED metrics
    ELSE /\ idx' = [idx EXCEPT ![t] = 0]
         /\ pc' = [pc EXCEPT ![t] = "drain"]
         /\ metrics' = [metrics EXCEPT ![t] = NoView]

\* _monitoring_loop: `if rule.should_trigger(metrics): self._trigger_alert(rule, metrics)`;
\* an exception goes to the loop's `except Exception`
EvalRule(t) ==
    /\ pc[t] = "eval"
    /\ LET i == idx[t]
           fire == ShouldTrigger(Rules[i], metrics[t], last_triggered[i], clock)
       IN CASE fire = "True" ->
                 /\ Len(heap) < MaxAlertsEver
                 /\ heap' = Append(heap, NewAlert(i, metrics[t], clock))
                 /\ alert_queue' = Put(alert_queue, Len(heap) + 1)
                 /\ alerts' = Append(alerts, Len(heap) + 1)
                 /\ pc' = [pc EXCEPT ![t] = "mark"]
                 /\ UNCHANGED <<idx, metrics>>
            [] fire = "False" ->
                 /\ AfterRule(t, i)
                 /\ UNCHANGED <<heap, alert_queue, alerts>>
            [] OTHER ->
                 /\ pc' = [pc EXCEPT ![t] = "except"]
                 /\ idx' = [idx EXCEPT ![t] = 0]
                 /\ metrics' = [metrics EXCEPT ![t] = NoView]
                 /\ UNCHANGED <<heap, alert_queue, alerts>>
    /\ UNCHANGED <<clock, config_file, config, last_triggered, running, monitor_thread, mainpc,
                   dispatched, alerts_file>>
    /\ UNCHANGED rmVars
    /\ UNCHANGED opVars

\* AlertRule.trigger, the right-hand side of `self.last_triggered = time.time()`:
\* the clock is read
MarkRead(t) ==
    /\ pc[t] = "mark"
    /\ tnow' = [tnow EXCEPT ![t] = clock]
    /\ pc' = [pc EXCEPT ![t] = "store"]
    /\ UNCHANGED <<clock, config_file, config, last_triggered, heap, alerts, alert_queue, running,
                   monitor_thread, idx, metrics, mainpc, dispatched, alerts_file>>
    /\ UNCHANGED rmVars
    /\ UNCHANGED <<alerts_data, test, ret, fnVars, smVars, boVars>>

\* a trigger() that stamps every rule of the rule set
MarkTriggeredAll(t) ==
    /\ pc[t] = "store"
    /\ last_triggered' = [i \in RuleIds |-> tnow[t]]
    /\ tnow' = [tnow EXCEPT ![t] = None]
    /\ AfterRule(t, idx[t])
    /\ UNCHANGED <<clock, config_file, config, heap, alerts, alert_queue, running, monitor_thread,
                   mainpc, dispatched, alerts_file>>
    /\ UNCHANGED rmVars
    /\ UNCHANGED <<alerts_data, test, ret, fnVars, smVars, boVars>>

\* AlertRule.trigger, the assignment: the time that was read is stored
MarkTriggered(t) ==
    /\ pc[t] = "store"
    /\ last_triggered' = [last_triggered EXCEPT ![idx[t]] = tnow[t]]
    /\ tnow' = [tnow EXCEPT ![t] = None]
    /\ AfterRule(t, idx[t])
    /\ UNCHANGED <<clock, config_file, config, heap, alerts, alert_queue, running, monitor_thread,
                   mainpc, dispatched, alerts_file>>
    /\ UNCHANGED rmVars
    /\ UNCHANGED <<alerts_data, test, ret, fnVars, smVars, boVars>>

\* _process_alert_queue: one turn of `while not self.alert_queue.empty()`
DrainOne(t) ==
    /\ pc[t] = "drain"
    /\ IF alert_queue = <<>>
       THEN /\ pc' = [pc EXCEPT ![t] = "filter"]
            /\ UNCHANGED <<alert_queue, dispatched>>
       ELSE \E fail \in {"none", "console", "email", "slack"} :
              LET sends == SendAll(DispatchActions, 1, fail) IN
              /\ fail # "none" =>
                    /\ CountFaults(dispatched) < MaxFaults
                    /\ \E k \in 1..Len(sends) : sends[k].result \in {"failed", "raised"}
              /\ alert_queue' = Dequeued(alert_queue, sends)
              /\ dispatched' = Append(dispatched,
                                      [alert |-> Head(alert_queue), sends |-> sends])
              /\ pc' = [pc EXCEPT ![t] = IF Raised(sends) THEN "except" ELSE "drain"]
    /\ UNCHANGED <<clock, config_file, config, last_triggered, heap, alerts, running, monitor_thread,
                   idx, metrics, mainpc, alerts_file>>
    /\ UNCHANGED rmVars
    /\ UNCHANGED opVars

\* _cleanup_old_alerts: `self.alerts = [a for a in self.alerts if a.timestamp > cutoff_date]`
CleanupFilter(t) ==
    /\ pc[t] = "filter"
    /\ alerts' = RetentionFilter(alerts, clock)
    /\ pc' = [pc EXCEPT ![t] = "trim"]
    /\ UNCHANGED <<clock, config_file, config, last_triggered, heap, alert_queue, running,
                   monitor_thread, idx, metrics, mainpc, dispatched, alerts_file>>
    /\ UNCHANGED rmVars
    /\ UNCHANGED opVars

\* _cleanup_old_alerts: `if len(self.alerts) > max_alerts: self.alerts = self.alerts[-max_alerts:]`,
\* then _monitoring_loop's time.sleep(check_interval)
CleanupTrim(t) ==
    /\ pc[t] = "trim"
    /\ alerts' = MaxTrim(alerts)
    /\ pc' = [pc EXCEPT ![t] = "while"]
    /\ UNCHANGED <<clock, config_file, config, last_triggered, heap, alert_queue, running,
                   monitor_thread, idx, metrics, mainpc, dispatched, alerts_file>>
    /\ UNCHANGED rmVars
    /\ UNCHANGED opVars

\* an `except Exception` that ends the thread instead of going on
ExceptExits(t) ==
    /\ pc[t] = "except"
    /\ pc' = [pc EXCEPT ![t] = "dead"]
    /\ UNCHANGED <<clock, config_file, config, last_triggered, heap, alerts, alert_queue, running,
                   monitor_thread, idx, metrics, mainpc, dispatched, alerts_file>>
    /\ UNCHANGED rmVars
    /\ UNCHANGED opVars

\* _monitoring_loop: `except Exception`: log, time.sleep(1)
Except(t) ==
    /\ pc[t] = "except"
    /\ pc' = [pc EXCEPT ![t] = "while"]
    /\ UNCHANGED <<clock, config_file, config, last_triggered, heap, alerts, alert_queue, running,
                   monitor_thread, idx, metrics, mainpc, dispatched, alerts_file>>
    /\ UNCHANGED rmVars
    /\ UNCHANGED opVars

Next ==
    \/ Tick
    \/ Start
    \/ StopBegin
    \/ StopJoin
    \/ \E t \in Threads : LoopTest(t)
    \/ \E t \in Threads : EvalRule(t)
    \/ \E t \in Threads : MarkRead(t)
    \/ \E t \in Threads : MarkTriggered(t)
    \/ \E t \in Threads : DrainOne(t)
    \/ \E t \in Threads : CleanupFilter(t)
    \/ \E t \in Threads : CleanupTrim(t)
    \/ \E t \in Threads : Except(t)

Spec == Init /\ [][Next]_vars

\* One start() and no stop(): a single monitoring loop.
NextSingle ==
    \/ Tick
    \/ Start
    \/ \E t \in Threads : LoopTest(t)
    \/ \E t \in Threads : EvalRule(t)
    \/ \E t \in Threads : MarkRead(t)
    \/ \E t \in Threads : MarkTriggered(t)
    \/ \E t \in Threads : DrainOne(t)
    \/ \E t \in Threads : CleanupFilter(t)
    \/ \E t \in Threads : CleanupTrim(t)
    \/ \E t \in Threads : Except(t)

SpecSingle == Init /\ [][NextSingle]_vars

\* ------------------------------------------------ the public API of the store
\* the ids a caller passes to acknowledge_alert / resolve_alert: the id of the
\* Alerts the first rule creates in second 0, and an id no Alert has
CallIds == { <<Rules[1].name, 0>>, <<"unknown", 0>> }

\* `for alert in self.alerts: if alert.id == alert_id:` the position in the store
\* of the first alert with that id, 0 when the loop ends without a match
FirstWithId(h, as, id) ==
    LET S == { k \in 1..Len(as) : h[as[k]].id = id }
    IN IF S = {} THEN 0 ELSE CHOOSE k \in S : \A j \in S : k <= j

\* acknowledge_alert that also resolves (the body of resolve_alert pasted over it)
AcknowledgedAndResolved(h, as, id) ==
    LET k == FirstWithId(h, as, id) IN
    IF k = 0 THEN h
    ELSE [h EXCEPT ![as[k]].acknowledged = TRUE, ![as[k]].resolved = TRUE]

\* the Alert objects after acknowledge_alert(id)
Acknowledged(h, as, id) ==
    LET k == FirstWithId(h, as, id) IN
    IF k = 0 THEN h ELSE [h EXCEPT ![as[k]].acknowledged = TRUE]

\* resolve_alert that flips the flag instead of setting it
ResolvedToggle(h, as, id) ==
    LET k == FirstWithId(h, as, id) IN
    IF k = 0 THEN h ELSE [h EXCEPT ![as[k]].resolved = ~h[as[k]].resolved]

\* the Alert objects after resolve_alert(id)
Resolved(h, as, id) ==
    LET k == FirstWithId(h, as, id) IN
    IF k = 0 THEN h ELSE [h EXCEPT ![as[k]].resolved = TRUE]

\* AlertManager.acknowledge_alert
AcknowledgeAlert(id) ==
    /\ heap' = Acknowledged(heap, alerts, id)
    /\ ret' = [ret EXCEPT !.value = (FirstWithId(heap, alerts, id) # 0)]
    /\ UNCHANGED <<clock, config_file, config, last_triggered, alerts, alert_queue, running,
                   monitor_thread, pc, idx, metrics, mainpc, dispatched, alerts_file>>
    /\ UNCHANGED rmVars
    /\ UNCHANGED <<tnow, alerts_data, test, fnVars, smVars, boVars>>

\* AlertManager.resolve_alert
ResolveAlert(id) ==
    /\ heap' = Resolved(heap, alerts, id)
    /\ ret' = [ret EXCEPT !.value = (FirstWithId(heap, alerts, id) # 0)]
    /\ UNCHANGED <<clock, config_file, config, last_triggered, alerts, alert_queue, running,
                   monitor_thread, pc, idx, metrics, mainpc, dispatched, alerts_file>>
    /\ UNCHANGED rmVars
    /\ UNCHANGED <<tnow, alerts_data, test, fnVars, smVars, boVars>>

\* the filters a caller passes to get_alerts: (severity, start_time, end_time),
\* "any" and None for an argument left out
CallFilters == { <<"any", None, None>>, <<"critical", None, None>>,
                 <<"any", 1, None>>, <<"any", None, 1>> }

\* the list get_alerts returns for the store `as`
Filtered(as, f) ==
    SelectSeq(as, LAMBDA a : /\ f[1] # "any" => heap[a].severity = f[1]
                             /\ f[2] # None => heap[a].timestamp >= f[2]
                             /\ f[3] # None => heap[a].timestamp <= f[3])

\* AlertManager.get_alerts: self.alerts is read once, without a lock
GetAlerts(f) ==
    /\ ret' = [ret EXCEPT !.list = Filtered(alerts, f)]
    /\ UNCHANGED amVars
    /\ UNCHANGED rmVars
    /\ UNCHANGED <<tnow, alerts_data, test, fnVars, smVars, boVars>>

\* One monitoring loop (start() creates a thread once), and a caller of stop(),
\* acknowledge_alert and resolve_alert.
NextOps ==
    \/ Tick
    \/ Start /\ monitor_thread = 0
    \/ StopBegin
    \/ StopJoin
    \/ \E t \in Threads : LoopTest(t)
    \/ \E t \in Threads : EvalRule(t)
    \/ \E t \in Threads : MarkRead(t)
    \/ \E t \in Threads : MarkTriggered(t)
    \/ \E t \in Threads : DrainOne(t)
    \/ \E t \in Threads : CleanupFilter(t)
    \/ \E t \in Threads : CleanupTrim(t)
    \/ \E t \in Threads : Except(t)
    \/ \E id \in CallIds : AcknowledgeAlert(id)
    \/ \E id \in CallIds : ResolveAlert(id)

\* one AlertManager loop and a caller of start() and stop()
NextOpsLoop ==
    \/ Tick
    \/ Start /\ monitor_thread = 0
    \/ StopBegin
    \/ StopJoin
    \/ \E t \in Threads : LoopTest(t)
    \/ \E t \in Threads : EvalRule(t)
    \/ \E t \in Threads : MarkRead(t)
    \/ \E t \in Threads : MarkTriggered(t)
    \/ \E t \in Threads : DrainOne(t)
    \/ \E t \in Threads : CleanupFilter(t)
    \/ \E t \in Threads : CleanupTrim(t)
    \/ \E t \in Threads : Except(t)

\* one AlertManager loop and a caller of start() and stop(), with the steps of
\* _save_alerts
NextSave ==
    \/ Tick
    \/ Start /\ monitor_thread = 0
    \/ StopBegin
    \/ StopJoinOpen
    \/ SaveDump
    \/ \E t \in Threads : LoopTest(t)
    \/ \E t \in Threads : EvalRule(t)
    \/ \E t \in Threads : MarkRead(t)
    \/ \E t \in Threads : MarkTriggered(t)
    \/ \E t \in Threads : DrainOne(t)
    \/ \E t \in Threads : CleanupFilter(t)
    \/ \E t \in Threads : CleanupTrim(t)
    \/ \E t \in Threads : Except(t)

SpecSave == Init /\ [][NextSave]_vars

\* ------------------------------------------------- the --test block of __main__
\* `test_metrics = {...}`, on a manager that was constructed and not started
TestBegin ==
    /\ mainpc = "idle"
    /\ test.pc = "idle"
    /\ \A t \in Threads : pc[t] = "unborn"
    /\ \E v \in TestViews :
          test' = [pc |-> "rules", metrics |-> v, i |-> 1, would_trigger |-> <<>>]
    /\ UNCHANGED amVars
    /\ UNCHANGED rmVars
    /\ UNCHANGED <<tnow, alerts_data, ret, fnVars, smVars, boVars>>

\* one turn of `for rule in manager.rules: if rule.should_trigger(test_metrics):
\* print(...); manager._trigger_alert(rule, test_metrics)`
TestRule ==
    /\ test.pc = "rules"
    /\ LET i == test.i
           fire == ShouldTrigger(DefaultRules[i], test.metrics, None, clock)
           next == IF i < Len(DefaultRules)
                   THEN [test EXCEPT !.i = i + 1] ELSE [test EXCEPT !.pc = "drain"]
       IN IF fire = "True"
          THEN /\ Len(heap) < MaxAlertsEver
               /\ heap' = Append(heap, DefaultAlert(i, test.metrics, clock))
               /\ alert_queue' = Put(alert_queue, Len(heap) + 1)
               /\ alerts' = Append(alerts, Len(heap) + 1)
               /\ test' = [next EXCEPT !.would_trigger = Append(@, DefaultRules[i].name)]
          ELSE /\ test' = next
               /\ UNCHANGED <<heap, alert_queue, alerts>>
    /\ UNCHANGED <<clock, config_file, config, last_triggered, running, monitor_thread, pc,
                   idx, metrics, mainpc, dispatched, alerts_file>>
    /\ UNCHANGED rmVars
    /\ UNCHANGED <<tnow, alerts_data, ret, fnVars, smVars, boVars>>

\* manager._process_alert_queue() at the end of the test: one turn of its while
TestDrain ==
    /\ test.pc = "drain"
    /\ IF alert_queue = <<>>
       THEN /\ test' = [test EXCEPT !.pc = "done"]
            /\ UNCHANGED <<alert_queue, dispatched>>
       ELSE LET sends == SendAll(DefaultRules[1].actions, 1, "none") IN
            /\ alert_queue' = Dequeued(alert_queue, sends)
            /\ dispatched' = Append(dispatched,
                                    [alert |-> Head(alert_queue), sends |-> sends])
            /\ UNCHANGED test
    /\ UNCHANGED <<clock, config_file, config, last_triggered, heap, alerts, running,
                   monitor_thread, pc, idx, metrics, mainpc, alerts_file>>
    /\ UNCHANGED rmVars
    /\ UNCHANGED <<tnow, alerts_data, ret, fnVars, smVars, boVars>>

NextTest ==
    \/ Tick
    \/ TestBegin
    \/ TestRule
    \/ TestDrain

SpecTest == Init /\ [][NextTest]_vars

\* ------------------------------------------- the timing of the sampler's tick
\* ResourceMonitor(sample_interval=...) constructed, no tick begun
InitTiming ==
    /\ AMInit
    /\ RMInit
    /\ \E i \in 0..MaxInterval : timing = [NoTiming EXCEPT !.sample_interval = i]
    /\ helper = NoHelper
    /\ series = NoSeries
    /\ SmInit

\* _monitoring_loop: `start_time = time.perf_counter_ns()`
TickStart ==
    /\ timing.phase = "idle"
    /\ timing.ticks < MaxTicks
    /\ timing' = [timing EXCEPT !.phase = "collect", !.start_time = timing.now,
                                !.ticks = @ + 1]
    /\ UNCHANGED <<helper, series>>
    /\ UNCHANGED <<amVars, rmVars, callVars, smVars, boVars>>

\* time passes during _collect_all_metrics, the extend and _save_samples
TickElapse ==
    /\ timing.phase = "collect"
    /\ timing.now - timing.start_time < MaxElapsed
    /\ timing' = [timing EXCEPT !.now = @ + 1]
    /\ UNCHANGED <<helper, series>>
    /\ UNCHANGED <<amVars, rmVars, callVars, smVars, boVars>>

\* _monitoring_loop: elapsed_ns and sleep_time are computed
TickSleep ==
    /\ timing.phase = "collect"
    /\ timing' = [timing EXCEPT
                     !.phase = "sleep",
                     !.sleep_time = SleepTime(timing.sample_interval,
                                              timing.now - timing.start_time)]
    /\ UNCHANGED <<helper, series>>
    /\ UNCHANGED <<amVars, rmVars, callVars, smVars, boVars>>

\* _monitoring_loop: time.sleep(sleep_time) returns
TickWake ==
    /\ timing.phase = "sleep"
    /\ timing' = [timing EXCEPT !.phase = "idle", !.now = @ + timing.sleep_time]
    /\ UNCHANGED <<helper, series>>
    /\ UNCHANGED <<amVars, rmVars, callVars, smVars, boVars>>

NextTiming ==
    \/ TickStart
    \/ TickElapse
    \/ TickSleep
    \/ TickWake

SpecTiming == InitTiming /\ [][NextTiming]_vars

\* ------------------------------------------- rules whose condition calls a helper
\* a rule with a helper in its condition and the metrics it will be evaluated on
InitHelpers ==
    /\ AMInit
    /\ RMInit
    /\ timing = NoTiming
    /\ series = NoSeries
    /\ SmInit
    /\ \E h \in {"avg", "max", "min", "count"}, kw \in {{}, {"default"}},
          th \in 0..1, vs \in SeqsUpTo(MaxSeqLen) :
          helper = [NoHelper EXCEPT !.rule = HelperRule(h, kw, th),
                                    !.view = [values |-> vs]]

\* rule.should_trigger(metrics) for the rule with the helper (last_triggered is None)
EvalHelperRule ==
    /\ helper.fired = "none"
    /\ helper' = [helper EXCEPT
                     !.result = CallHelper(helper.rule.condition.helper, helper.view.values,
                                           helper.rule.condition.kwargs),
                     !.fired = ShouldTrigger(helper.rule, helper.view, None, clock)]
    /\ UNCHANGED <<amVars, rmVars, callVars, smVars, boVars, timing, series>>

NextHelpers ==
    \/ Tick
    \/ EvalHelperRule

SpecHelpers == InitHelpers /\ [][NextHelpers]_vars

\* --------------------------------------- a manager with any notifications section
InitChannels ==
    /\ \E f \in ParsedFiles \cup ConsoleOffFiles :
          /\ config_file = f
          /\ config = LoadConfig(f)
    /\ clock = 0
    /\ last_triggered = [i \in RuleIds |-> None]
    /\ heap = <<>>
    /\ alerts = <<>>
    /\ alert_queue = <<>>
    /\ running = FALSE
    /\ monitor_thread = 0
    /\ pc = [t \in Threads |-> "unborn"]
    /\ idx = [t \in Threads |-> 0]
    /\ metrics = [t \in Threads |-> NoView]
    /\ mainpc = "idle"
    /\ dispatched = <<>>
    /\ alerts_file = NoFile
    /\ tnow = [t \in Threads |-> None]
    /\ alerts_data = <<>>
    /\ test = NoTest
    /\ ret = NoRet
    /\ RMInit
    /\ FnInit

SpecChannels == InitChannels /\ [][NextSingle]_vars

\* ------------------------------------------------ statistics of one series
\* the values recorded under one measurement name (at least one point)
InitStats ==
    /\ AMInit
    /\ RMInit
    /\ timing = NoTiming
    /\ helper = NoHelper
    /\ SmInit
    /\ \E vs \in SeqsUpTo(MaxSeqLen) \ { <<>> } : series = [NoSeries EXCEPT !.values = vs]

\* _calculate_statistics for the series
CalculateStatistics ==
    /\ ~series.done
    /\ series' = [series EXCEPT !.done = TRUE, !.stats = SeriesStats(series.values)]
    /\ UNCHANGED <<amVars, rmVars, callVars, smVars, boVars, timing, helper>>

NextStats ==
    \/ Tick
    \/ CalculateStatistics

SpecStats == InitStats /\ [][NextStats]_vars

\* ------------------------------------------------ runs of the orchestrator
SpecOrchestrator == Init /\ [][NextOrchestrator]_vars

\* ---------------------------------------------- calls on the collector
\* start_experiment, record_measurement and stop_experiment in any order
NextCollector ==
    \/ Tick
    \/ StartExperiment
    \/ RecordMeasurement
    \/ StopExperiment
    \/ MonitorRunEnds

SpecCollector == Init /\ [][NextCollector]_vars

\* ------------------------------------------------------------ construction
\* before AlertManager(config_file) is called
InitBoot ==
    /\ clock = 0
    /\ config_file \in ConfigFiles
    /\ config = NoConfig
    /\ last_triggered = [i \in RuleIds |-> None]
    /\ heap = <<>>
    /\ alerts = <<>>
    /\ alert_queue = <<>>
    /\ running = FALSE
    /\ monitor_thread = 0
    /\ pc = [t \in Threads |-> "unborn"]
    /\ idx = [t \in Threads |-> 0]
    /\ metrics = [t \in Threads |-> NoView]
    /\ mainpc = "new"
    /\ dispatched = <<>>
    /\ alerts_file = NoFile
    /\ tnow = [t \in Threads |-> None]
    /\ alerts_data = <<>>
    /\ test = NoTest
    /\ ret = NoRet
    /\ RMInit
    /\ FnInit

\* AlertManager.__init__: _load_config, the empty store and queue, _load_rules
\* (the rule set is built in: nothing is parsed)
Construct ==
    /\ mainpc = "new"
    /\ config' = LoadConfig(config_file)
    /\ mainpc' = "idle"
    /\ UNCHANGED <<clock, config_file, last_triggered, heap, alerts, alert_queue, running,
                   monitor_thread, pc, idx, metrics, dispatched, alerts_file>>
    /\ UNCHANGED rmVars
    /\ UNCHANGED opVars

NextBoot ==
    \/ Construct
    \/ NextSingle

SpecBoot == InitBoot /\ [][NextBoot]_vars

SpecOps == Init /\ [][NextOps]_vars

\* One start(), one monitoring loop, and a caller of get_alerts.
NextRead ==
    \/ Tick
    \/ Start
    \/ \E t \in Threads : LoopTest(t)
    \/ \E t \in Threads : EvalRule(t)
    \/ \E t \in Threads : MarkRead(t)
    \/ \E t \in Threads : MarkTriggered(t)
    \/ \E t \in Threads : DrainOne(t)
    \/ \E t \in Threads : CleanupFilter(t)
    \/ \E t \in Threads : CleanupTrim(t)
    \/ \E t \in Threads : Except(t)
    \/ \E f \in CallFilters : GetAlerts(f)

SpecRead == Init /\ [][NextRead]_vars

\* a test that lets the buffer reach the threshold without a flush
NeedsFlushAbove(buf) == Len(buf) > FlushThreshold

\* _monitoring_loop: `if len(self.samples) >= 1000`
NeedsFlush(buf) == Len(buf) >= FlushThreshold

\* ------------------------------------------------- ResourceMonitor actions
\* ResourceMonitor.start
RMStart ==
    /\ rm_main = "idle"
    /\ IF rm_pc # "none"
       THEN UNCHANGED <<stop_event, rm_pc>>
       ELSE /\ stop_event' = FALSE
            /\ rm_pc' = "while"
    /\ rm_last' = "start"
    /\ UNCHANGED <<samples, sample_log, nsamples, rm_main, stops, write_faults, tick_out>>
    /\ UNCHANGED amVars
    /\ UNCHANGED opVars

\* ResourceMonitor.stop: stop_event.set(), then the join begins
RMStopBegin ==
    /\ rm_main = "idle"
    /\ stops < MaxStops
    /\ stop_event' = TRUE
    /\ rm_main' = "join"
    /\ rm_last' = "stop"
    /\ UNCHANGED <<rm_pc, samples, sample_log, nsamples, stops, write_faults, tick_out>>
    /\ UNCHANGED amVars
    /\ UNCHANGED opVars

\* ResourceMonitor.stop: join(timeout=5) returns, the thread ended or not
RMStopJoin ==
    /\ rm_main = "join"
    /\ rm_main' = "save"
    /\ UNCHANGED <<stop_event, rm_pc, samples, sample_log, nsamples, stops, write_faults,
                   tick_out, rm_last>>
    /\ UNCHANGED amVars
    /\ UNCHANGED opVars

\* _save_samples up to the end of the `with open(file_path, 'a')` block: the
\* buffer is written to the log in buffer order; ok = FALSE is a write that
\* raises after some of the buffer, but not all of it, has reached the file
SaveWrite(ok) ==
    IF ok
    THEN /\ sample_log' = sample_log \o samples
         /\ UNCHANGED write_faults
    ELSE /\ write_faults < MaxWriteFaults
         /\ write_faults' = write_faults + 1
         /\ \E n \in 0..(Len(samples) - 1) :
               sample_log' = sample_log \o SubSeq(samples, 1, n)

\* a _save_samples that clears the buffer whether or not the write succeeded
AfterWriteAlwaysClear(ok, back) == "clear"

\* _save_samples: `self.samples.clear()` follows a write that succeeded; the
\* `except Exception` skips it and the caller goes on (`back`)
AfterWrite(ok, back) == IF ok THEN "clear" ELSE back

\* ResourceMonitor.stop: _save_samples, the write
RMStopWrite ==
    /\ rm_main = "save"
    /\ IF samples = <<>>
       THEN /\ rm_main' = "idle"
            /\ stops' = stops + 1
            /\ UNCHANGED <<sample_log, write_faults>>
       ELSE \E ok \in BOOLEAN :
              /\ SaveWrite(ok)
              /\ rm_main' = AfterWrite(ok, "idle")
              /\ stops' = IF rm_main' = "idle" THEN stops + 1 ELSE stops
    /\ UNCHANGED <<stop_event, rm_pc, samples, nsamples, tick_out, rm_last>>
    /\ UNCHANGED amVars
    /\ UNCHANGED opVars

\* ResourceMonitor.stop: _save_samples, `self.samples.clear()`
RMStopClear ==
    /\ rm_main = "clear"
    /\ samples' = <<>>
    /\ rm_main' = "idle"
    /\ stops' = stops + 1
    /\ UNCHANGED <<stop_event, rm_pc, sample_log, nsamples, write_faults, tick_out, rm_last>>
    /\ UNCHANGED amVars
    /\ UNCHANGED opVars

\* _monitoring_loop: `while not self.stop_event.is_set()`
RMLoopTest ==
    /\ rm_pc = "while"
    /\ rm_pc' = IF stop_event THEN "none" ELSE "collect"
    /\ UNCHANGED <<stop_event, samples, sample_log, nsamples, rm_main, stops, write_faults,
                   tick_out, rm_last>>
    /\ UNCHANGED amVars
    /\ UNCHANGED opVars

\* _monitoring_loop: _collect_all_metrics up to the call of subprocess.run in
\* _collect_container_metrics; raised = TRUE is an exception outside the
\* sources' own try blocks (socket.gethostname), which goes to the loop's
\* `except Exception`
RMCollectBegin ==
    /\ rm_pc = "collect"
    /\ nsamples < MaxSamples
    /\ \E raised \in BOOLEAN : rm_pc' = IF raised THEN "except" ELSE "lxc"
    /\ UNCHANGED <<stop_event, samples, sample_log, nsamples, rm_main, stops, write_faults,
                   tick_out, rm_last>>
    /\ UNCHANGED amVars
    /\ UNCHANGED opVars

\* _monitoring_loop: subprocess.run(["lxc", ...]) returns (it is called without
\* a timeout), _collect_all_metrics returns, `self.samples.extend(samples)` and
\* the test `len(self.samples) >= 1000`
RMCollect ==
    /\ rm_pc = "lxc"
    /\ \E f \in SourceFaults : tick_out' = CollectAll(f)
    /\ nsamples' = nsamples + 1
    /\ samples' = Append(samples, nsamples + 1)
    /\ rm_pc' = IF NeedsFlush(samples') THEN "write" ELSE "while"
    /\ UNCHANGED <<stop_event, sample_log, rm_main, stops, write_faults, rm_last>>
    /\ UNCHANGED amVars
    /\ UNCHANGED opVars

\* _monitoring_loop: _save_samples, the write
RMLoopWrite ==
    /\ rm_pc = "write"
    /\ IF samples = <<>>
       THEN /\ rm_pc' = "while"
            /\ UNCHANGED <<sample_log, write_faults>>
       ELSE \E ok \in BOOLEAN :
              /\ SaveWrite(ok)
              /\ rm_pc' = AfterWrite(ok, "while")
    /\ UNCHANGED <<stop_event, samples, nsamples, rm_main, stops, tick_out, rm_last>>
    /\ UNCHANGED amVars
    /\ UNCHANGED opVars

\* _monitoring_loop: _save_samples, `self.samples.clear()`, then the sleep
RMLoopClear ==
    /\ rm_pc = "clear"
    /\ samples' = <<>>
    /\ rm_pc' = "while"
    /\ UNCHANGED <<stop_event, sample_log, nsamples, rm_main, stops, write_faults,
                   tick_out, rm_last>>
    /\ UNCHANGED amVars
    /\ UNCHANGED opVars

\* where the monitoring loop goes after its `except Exception` (log, sleep(1))
AfterExcept == "while"

\* _monitoring_loop: `except Exception`
RMExcept ==
    /\ rm_pc = "except"
    /\ rm_pc' = AfterExcept
    /\ UNCHANGED <<stop_event, samples, sample_log, nsamples, rm_main, stops, write_faults,
                   tick_out, rm_last>>
    /\ UNCHANGED amVars
    /\ UNCHANGED opVars

NextMonitor ==
    \/ RMStart
    \/ RMStopBegin
    \/ RMStopJoin
    \/ RMStopWrite
    \/ RMStopClear
    \/ RMLoopTest
    \/ RMCollectBegin
    \/ RMCollect
    \/ RMLoopWrite
    \/ RMLoopClear
    \/ RMExcept

SpecMonitor == Init /\ [][NextMonitor]_vars

\* The AlertManager and the ResourceMonitor are separate objects that share no
\* state; in one run either the one or the other is used.
AlertManagerUnused ==
    /\ clock = 0
    /\ mainpc = "idle"
    /\ \A t \in Threads : pc[t] = "unborn"

ResourceMonitorUnused == rm_last = "none"

NextLoops ==
    \/ ResourceMonitorUnused /\ NextOpsLoop
    \/ AlertManagerUnused /\ NextMonitor

SpecLoops == Init /\ [][NextLoops]_vars

\* The thread of the monitoring loop is scheduled again and again; the return
\* of subprocess.run (RMCollect) depends on the lxc process and is not assumed.
SpecMonitorFair ==
    /\ SpecMonitor
    /\ WF_vars(RMLoopTest)
    /\ WF_vars(RMCollectBegin)
    /\ WF_vars(RMLoopWrite)
    /\ WF_vars(RMLoopClear)
    /\ WF_vars(RMExcept)

\* ------------------------------------------------------------ properties
Range(s) == { s[k] : k \in 1..Len(s) }

\* thread t takes the step that evaluates the rule its for loop is at
EvalStep(t) == pc[t] = "eval" /\ (pc'[t] # "eval" \/ idx'[t] # idx[t])

\* ... and that evaluation creates an Alert
FiredStep(t) == pc[t] = "eval" /\ pc'[t] = "mark"

CondOf(t) == EvalCondition(Rules[idx[t]].condition, metrics[t])

InCooldown(t) ==
    /\ last_triggered[idx[t]] # None
    /\ clock - last_triggered[idx[t]] < Rules[idx[t]].cooldown_seconds

\* C1: an evaluation whose condition is true while now - last_triggered is below
\* the rule's cooldown creates no Alert, enqueues nothing and leaves every
\* last_triggered unchanged.
C1_CooldownSuppresses ==
    [][\A t \in Threads :
          (EvalStep(t) /\ CondOf(t) = "true" /\ InCooldown(t))
             => (heap' = heap /\ alert_queue' = alert_queue /\ alerts' = alerts
                 /\ last_triggered' = last_triggered)]_vars

\* C2: any two Alerts created from the same rule lie at least that rule's
\* cooldown apart.
C2_NoTwoAlertsWithinCooldown ==
    \A a, b \in 1..Len(heap) :
       (a < b /\ heap[a].rule = heap[b].rule)
          => heap[b].timestamp - heap[a].timestamp >= Rules[heap[a].rule].cooldown_seconds

\* C3: an evaluation whose condition is true creates an Alert exactly when
\* last_triggered is unset or at least the cooldown has passed since it.
C3_TriggersExactlyOutsideCooldown ==
    [][\A t \in Threads :
          (EvalStep(t) /\ CondOf(t) = "true")
             => (FiredStep(t) <=> ~InCooldown(t))]_vars

\* C4: the channels invoked for a dispatched Alert are the actions of the rule
\* that created it, in that rule's order.
C4_DispatchUsesTriggeringRule ==
    \A d \in 1..Len(dispatched) :
       [k \in 1..Len(dispatched[d].sends) |-> dispatched[d].sends[k].channel]
          = Rules[heap[dispatched[d].alert].rule].actions

\* C5: no two Alerts ever created have the same id.
C5_AlertIdsUnique ==
    \A a, b \in 1..Len(heap) : a # b => heap[a].id # heap[b].id

\* C6: an evaluation whose condition raises creates no Alert, changes no
\* last_triggered, and the for loop goes on to the next rule (or, after the last
\* rule, to the drain) exactly as if the rule had not been there.
C6_FailedRuleIsSkipped ==
    [][\A t \in Threads :
          (EvalStep(t) /\ CondOf(t) = "error")
             => /\ heap' = heap /\ alert_queue' = alert_queue /\ alerts' = alerts
                /\ last_triggered' = last_triggered
                /\ idx[t] < Len(Rules) =>
                      (pc'[t] = "eval" /\ idx'[t] = idx[t] + 1 /\ metrics'[t] = metrics[t])
                /\ idx[t] = Len(Rules) => pc'[t] = "drain"]_vars

\* C6 witness: in one tick the first rule's condition raised (its metric is
\* absent) and the second rule has been evaluated and has triggered.
C6_Witness ==
    \E t \in Threads :
       /\ pc[t] = "mark" /\ idx[t] = 2
       /\ EvalCondition(Rules[1].condition, metrics[t]) = "error"
       /\ last_triggered[1] = None

\* thread t takes an Alert from the queue and dispatches it
DrainStep(t) == pc[t] = "drain" /\ alert_queue # <<>> /\ pc'[t] # "filter"
                /\ Len(dispatched') = Len(dispatched) + 1

\* C7: when a channel fails for an Alert, the remaining channels of the action
\* list are still invoked for it and the drain goes on to the next Alert.
C7_ChannelFailureIsIsolated ==
    [][\A t \in Threads :
          DrainStep(t)
             => /\ Len(dispatched'[Len(dispatched')].sends) = Len(DispatchActions)
                /\ pc'[t] = "drain"]_vars

\* C8: with no failed write, every sample ever appended to the buffer is in the
\* buffer or in the log, and once stop() has returned and the loop has ended the
\* buffer holds nothing that is not in the log.
C8_NoSampleLost ==
    write_faults = 0 =>
       /\ \A k \in 1..nsamples : k \in Range(samples) \cup Range(sample_log)
       /\ (stops > 0 /\ rm_main = "idle" /\ rm_pc = "none")
             => Range(samples) \subseteq Range(sample_log)

\* thread t takes the last step of _cleanup_old_alerts
TrimStep(t) == pc[t] = "trim" /\ pc'[t] # "trim"

FilterStep(t) == pc[t] = "filter" /\ pc'[t] = "trim"

\* C9: when a cleanup pass returns, the store holds at most max_alerts alerts.
C9_CleanupBoundsStore ==
    [][\A t \in Threads : TrimStep(t) => Len(alerts') <= config.max_alerts]_vars

\* the last m elements of s
KeepLast(s, m) == IF Len(s) > m THEN SubSeq(s, Len(s) - m + 1, Len(s)) ELSE s

\* C10: cleanup first drops the alerts older than the retention window, keeping
\* the others in order, and then keeps exactly the max_alerts last of them.
C10_CleanupKeepsMostRecent ==
    [][\A t \in Threads :
          /\ FilterStep(t) =>
                /\ \A k \in 1..Len(alerts') :
                      clock - heap[alerts'[k]].timestamp <= config.retention_days
                /\ \E n \in 0..Len(alerts) : alerts' = SubSeq(alerts, n + 1, Len(alerts))
          /\ TrimStep(t) => alerts' = KeepLast(alerts, config.max_alerts)]_vars

\* C11: cleaning the store a second time, with no append and no clock change in
\* between, leaves the list the first cleanup produced.
C11_CleanupIdempotent ==
    Cleanup(Cleanup(alerts, clock), clock) = Cleanup(alerts, clock)

\* C11 witness: a store of two alerts that one cleanup shortens to one.
C11_Witness ==
    /\ Len(alerts) = 2
    /\ Len(Cleanup(alerts, clock)) = 1

StoredId(id) == \E k \in 1..Len(alerts) : heap[alerts[k]].id = id

\* the step is a call acknowledge_alert(id) / resolve_alert(id); the test of pc
\* and idx, which the call leaves alone, comes first to tell the loop's steps apart
AcknowledgeStep(id) == pc' = pc /\ idx' = idx /\ AcknowledgeAlert(id)

ResolveStep(id) == pc' = pc /\ idx' = idx /\ ResolveAlert(id)

\* C12: acknowledge_alert / resolve_alert return whether a stored alert has the
\* id; with none they change no Alert, with one they leave its flag set; and the
\* same call made again changes nothing more.
C12_AckResolveIdempotent ==
    [][\A id \in CallIds :
          /\ AcknowledgeStep(id) =>
                /\ ret'.value = StoredId(id)
                /\ ~StoredId(id) => heap' = heap
                /\ StoredId(id) =>
                      \E k \in 1..Len(alerts) :
                         heap[alerts[k]].id = id /\ heap'[alerts[k]].acknowledged
                /\ Acknowledged(heap', alerts', id) = heap'
          /\ ResolveStep(id) =>
                /\ ret'.value = StoredId(id)
                /\ ~StoredId(id) => heap' = heap
                /\ StoredId(id) =>
                      \E k \in 1..Len(alerts) :
                         heap[alerts[k]].id = id /\ heap'[alerts[k]].resolved
                /\ Resolved(heap', alerts', id) = heap']_vars

\* C12 witness: a call has returned true and a stored alert is both acknowledged
\* and resolved.
C12_Witness ==
    /\ ret.value
    /\ \E k \in 1..Len(alerts) :
          heap[alerts[k]].acknowledged /\ heap[alerts[k]].resolved

\* C13: a new Alert has both flags false; a step changes an existing Alert only
\* if it is acknowledge_alert, which sets acknowledged and nothing else, or
\* resolve_alert, which sets resolved and nothing else.
C13_AlertFrame ==
    [][/\ Len(heap') >= Len(heap)
       /\ \A k \in 1..Len(heap) :
             \/ heap'[k] = heap[k]
             \/ /\ \E id \in CallIds : AcknowledgeStep(id)
                /\ heap'[k] = [heap[k] EXCEPT !.acknowledged = TRUE]
             \/ /\ \E id \in CallIds : ResolveStep(id)
                /\ heap'[k] = [heap[k] EXCEPT !.resolved = TRUE]
       /\ \A k \in (Len(heap) + 1)..Len(heap') :
             ~heap'[k].acknowledged /\ ~heap'[k].resolved]_vars

\* C13 witness: an Alert was acknowledged, then dispatched and dropped from the
\* store by a cleanup, and is still acknowledged and not resolved.
C13_Witness ==
    \E k \in 1..Len(heap) :
       /\ heap[k].acknowledged /\ ~heap[k].resolved
       /\ \E d \in 1..Len(dispatched) : dispatched[d].alert = k
       /\ k \notin Range(alerts)

\* C14: the queue length stays below a maximum of its own: the queue never holds
\* as many Alerts as the whole run creates.
C14_QueueIsBounded ==
    Len(alert_queue) < MaxAlertsEver

\* thread t leaves _process_alert_queue
DrainReturns(t) == pc[t] = "drain" /\ pc'[t] # "drain"

\* C15: a drain takes the Alert at the head of the queue, and it ends only with
\* the queue empty.
C15_DrainIsFifoAndComplete ==
    [][\A t \in Threads :
          /\ DrainStep(t) =>
                /\ dispatched'[Len(dispatched')].alert = Head(alert_queue)
                /\ alert_queue' = Tail(alert_queue)
          /\ DrainReturns(t) => alert_queue' = <<>>]_vars

\* C16: no Alert is dispatched twice, no dispatch invokes a channel twice, and
\* an Alert that has been dispatched, with or without success, is not in the
\* queue again.
C16_AtMostOnce ==
    /\ \A d, e \in 1..Len(dispatched) :
          d # e => dispatched[d].alert # dispatched[e].alert
    /\ \A d \in 1..Len(dispatched) :
          /\ \A j, k \in 1..Len(dispatched[d].sends) :
                j # k => dispatched[d].sends[j].channel # dispatched[d].sends[k].channel
          /\ dispatched[d].alert \notin Range(alert_queue)
    /\ \A j, k \in 1..Len(alert_queue) : j # k => alert_queue[j] # alert_queue[k]

\* C16 witness: two loops are alive, both Alerts of the run have been
\* dispatched, one of them with a send that did not succeed, and the queue is
\* empty.
C16_Witness ==
    /\ \A t \in Threads : pc[t] \notin {"unborn", "dead"}
    /\ Len(dispatched) = 2
    /\ CountFaults(dispatched) = 1
    /\ alert_queue = <<>>

\* C17: get_alerts never returns the list of a cleanup pass that has filtered
\* the store and has not yet trimmed it to max_alerts.
C17_ReadsExcludeCleanup ==
    [][(\E f \in CallFilters : GetAlerts(f))
          => \A t \in Threads :
                pc[t] = "trim" => MaxTrim(alerts) = alerts]_vars

\* C18: a condition on a key that is absent from the view is evaluated with the
\* key at 0: the evaluation is not an error and gives the boolean of 0 > th.
C18_MissingKeyIsNeutral ==
    [][\A t \in Threads :
          (EvalStep(t) /\ metrics[t][Rules[idx[t]].condition.key] = Absent)
             => CondOf(t) = (IF 0 > Rules[idx[t]].condition.th THEN "true" ELSE "false")]_vars

\* C19: every Alert carries the severity of the rule that created it, the view
\* that triggered it, and that rule's action list.
C19_AlertCarriesRuleData ==
    \A k \in 1..Len(heap) :
       /\ heap[k].severity = Rules[heap[k].rule].severity
       /\ heap[k].metrics \in Views
       /\ "actions" \in DOMAIN heap[k]
       /\ heap[k].actions = Rules[heap[k].rule].actions

\* C20: last_triggered of a rule is unset as long as the rule has created no
\* Alert, and once set it never becomes smaller.
C20_LastTriggeredMonotone ==
    [][\A i \in RuleIds :
          /\ last_triggered'[i] # None => \E k \in 1..Len(heap') : heap'[k].rule = i
          /\ last_triggered[i] # None => last_triggered'[i] >= last_triggered[i]]_vars

\* a write of the sample log that raised
FailedWriteStep == write_faults' = write_faults + 1

\* C21: a write of the sample log that fails leaves the buffer as it was and
\* does not lead to the clearing of the buffer: the loop goes back to its
\* `while`, stop() returns; a write that succeeds appends the whole buffer,
\* the samples of an earlier failed write included, to the log.
C21_FailedFlushKeepsBuffer ==
    [][/\ FailedWriteStep
          => /\ samples' = samples
             /\ rm_pc' # rm_pc => rm_pc' = "while"
             /\ rm_main' # rm_main => rm_main' = "idle"
       /\ (sample_log' # sample_log /\ ~FailedWriteStep)
          => /\ sample_log' = sample_log \o samples
             /\ samples' = samples]_vars

C21_Witness ==
    /\ write_faults = 1
    /\ nsamples >= 2
    /\ samples = <<>>
    /\ \A n \in 1..nsamples : n \in Range(sample_log)

\* the sample a source emits when nothing fails
FullSample(s) == [sample_type |-> s, metrics |-> GroupSet(s, Len(Groups[s]))]

EmitsFull(s) == \E k \in 1..Len(tick_out) : tick_out[k] = FullSample(s)

SamplesOf(s) == { k \in 1..Len(tick_out) : tick_out[k].sample_type = s }

StopReturned == rm_last = "stop" /\ rm_main = "idle"

\* C23: once stop() has returned, the monitoring loop runs no further tick and
\* changes neither the buffer nor the sample log.
C23_NothingAfterStop ==
    [][StopReturned
          => /\ nsamples' = nsamples
             /\ samples' = samples
             /\ sample_log' = sample_log]_vars

\* C24: a call of a metric source that does not return is ended by a timeout,
\* so a loop that has called `lxc list` always gets past the call.
C24_SourceCallEnds == (rm_pc = "lxc") ~> (rm_pc # "lxc")

\* C25: an error inside a tick ends neither loop: from its `except Exception`
\* a loop goes back to its `while`, and a loop thread ends only at its `while`,
\* when stop() has cleared `running` (AlertManager) or set the stop event
\* (ResourceMonitor); a failed write of the sample log does not end the thread.
C25_ErrorsDoNotEndLoops ==
    [][/\ \A t \in Threads :
             /\ pc[t] = "except" => pc'[t] \in {"except", "while"}
             /\ (pc'[t] = "dead" /\ pc[t] # "dead") => (pc[t] = "while" /\ ~running)
       /\ rm_pc = "except" => rm_pc' \in {"except", "while"}
       /\ (rm_pc' = "none" /\ rm_pc # "none") => (rm_pc = "while" /\ stop_event)
       /\ (FailedWriteStep /\ rm_pc = "write" /\ rm_pc' # rm_pc) => rm_pc' = "while"]_vars

C25_Witness ==
    /\ \E k \in 1..Len(dispatched) : Raised(dispatched[k].sends)
    /\ running
    /\ \E t \in Threads : pc[t] = "eval"

\* C27: at every instant the alerts file holds a complete snapshot.
C27_SnapshotIsComplete == alerts_file.complete

\* the file config_file names cannot be loaded
BrokenConfigFile == config_file.kind \in {"absent", "unparsable"}

Exceeds(rule, view) ==
    /\ view[rule.condition.key] # Absent
    /\ IF rule.condition.op = ">" THEN view[rule.condition.key] > rule.condition.th
       ELSE view[rule.condition.key] < rule.condition.th

\* C28: in the `--test` run every built-in rule whose metric is beyond its
\* threshold in test_metrics is reported as triggering, and no other rule is.
C28_DefaultRulesTrigger ==
    \A i \in 1..Len(DefaultRules) :
       (test.pc \in {"drain", "done"} \/ (test.pc = "rules" /\ test.i > i))
          => (Exceeds(DefaultRules[i], test.metrics)
                <=> DefaultRules[i].name \in Range(test.would_trigger))

\* the monitoring threads that have been started and have not ended
LiveLoops == { t \in Threads : pc[t] \notin {"unborn", "dead"} }

\* C29: at most one monitoring loop of the AlertManager is alive at a time.
C29_AtMostOneLoop == Cardinality(LiveLoops) <= 1

\* C30: when the last call was a start(), the stop flag is clear and a
\* monitoring loop is alive.
C30_StartMeansSampling ==
    rm_last = "start" => (~stop_event /\ rm_pc # "none")

\* the monitoring loop is between two ticks or collecting
BetweenFlushes == rm_pc \in {"none", "while", "collect", "lxc", "except"}

\* C31: the buffer changes only by an append at its end or by the clearing
\* that ends a flush; a tick that leaves the buffer at or above the threshold
\* goes on to flush it; a write that succeeds appends the whole buffer to the
\* log in buffer order and is followed by the clearing, which empties the
\* buffer; as long as no write has failed, the buffer is below the threshold
\* whenever the loop is not flushing.
C31_BufferPolicy ==
    [][/\ samples' # samples
          => \/ /\ rm_pc = "lxc"
                /\ samples' = Append(samples, nsamples')
                /\ rm_pc' = IF Len(samples') >= FlushThreshold THEN "write" ELSE "while"
             \/ /\ samples' = <<>>
                /\ \/ rm_pc = "clear" /\ rm_pc' = "while"
                   \/ rm_main = "clear" /\ rm_main' = "idle"
       /\ (sample_log' # sample_log /\ ~FailedWriteStep)
          => /\ sample_log' = sample_log \o samples
             /\ \/ rm_pc = "write" /\ rm_pc' = "clear"
                \/ rm_main = "save" /\ rm_main' = "clear"
       /\ (write_faults' = 0 /\ BetweenFlushes')
          => Len(samples') < FlushThreshold]_vars

C31_Witness ==
    /\ rm_last = "start"
    /\ write_faults = 0
    /\ rm_pc = "while"
    /\ samples = <<>>
    /\ sample_log = <<1, 2>>

\* the time the collection phase of the tick in progress has taken
Elapsed == timing.now - timing.start_time

\* C32: the sleep computed at the end of a tick is never negative; when the
\* collection was shorter than sample_interval the next tick starts exactly
\* sample_interval after this one started; when it took sample_interval or
\* longer the sleep is 0 and the next tick starts at once.
C32_SleepIsRemainder ==
    [][/\ timing'.sleep_time >= 0
       /\ (timing.phase = "collect" /\ timing'.phase = "sleep")
          => /\ Elapsed < timing.sample_interval
                   => timing'.sleep_time = timing.sample_interval - Elapsed
             /\ Elapsed >= timing.sample_interval => timing'.sleep_time = 0
       /\ (timing.phase = "sleep" /\ timing'.phase = "idle")
          => timing'.now - timing.start_time =
                IF timing.now - timing.start_time < timing.sample_interval
                THEN timing.sample_interval ELSE timing.now - timing.start_time]_vars

C32_Witness ==
    /\ timing.ticks = 2
    /\ timing.phase = "sleep"
    /\ timing.sample_interval = 2
    /\ Elapsed = 3
    /\ timing.sleep_time = 0
    /\ timing.start_time = 2

\* the helper call of the rule that was evaluated
HelperOf == helper.rule.condition.helper

HelperValues == helper.view.values

\* C33: a helper called with the sequence alone returns 0 on the empty
\* sequence and the mean (the deviations from it sum to 0), the greatest
\* element, the least element and the length on a non-empty one, and the rule
\* triggers exactly when that value is above the threshold; a helper called
\* with a keyword argument raises and the rule does not trigger.
C33_HelpersAreTotal ==
    helper.fired # "none" =>
       LET r == helper.result
           vs == HelperValues
           th == helper.rule.condition.th
       IN IF helper.rule.condition.kwargs # {}
          THEN r.status = "error" /\ helper.fired = "False"
          ELSE /\ r.status = "ok"
               /\ vs = <<>> => (r.num = 0 /\ helper.fired = "False")
               /\ (vs # <<>> /\ HelperOf = "avg")
                     => SumOf([k \in 1..Len(vs) |-> vs[k] * r.den - r.num]) = 0
               /\ (vs # <<>> /\ HelperOf = "max")
                     => (r.den = 1 /\ r.num \in Range(vs) /\ \A k \in 1..Len(vs) : vs[k] <= r.num)
               /\ (vs # <<>> /\ HelperOf = "min")
                     => (r.den = 1 /\ r.num \in Range(vs) /\ \A k \in 1..Len(vs) : vs[k] >= r.num)
               /\ HelperOf = "count" => (r.den = 1 /\ r.num = Len(vs))
               /\ helper.fired = (IF r.num > th * r.den THEN "True" ELSE "False")

C33_Witness ==
    /\ helper.fired = "False"
    /\ HelperOf = "max"
    /\ helper.rule.condition.kwargs = {"default"}
    /\ HelperValues = <<2, 1>>

\* C34: last_triggered of a rule changes only in the step in which the loop
\* that has just created an Alert from this rule stores the time of the
\* trigger; an evaluation that is suppressed or fails, the dispatch, the
\* cleanup, acknowledge_alert and resolve_alert leave every last_triggered as
\* it is. (The other fields of the rules are the constants of Rules.)
C34_OnlyTriggerStampsRule ==
    [][/\ \A i \in RuleIds :
             last_triggered'[i] # last_triggered[i]
                => \E t \in Threads :
                      /\ pc[t] = "store" /\ pc'[t] # "store"
                      /\ idx[t] = i
                      /\ last_triggered'[i] = tnow[t]
                      /\ \E k \in 1..Len(heap) : heap[k].rule = i
       /\ \A t \in Threads :
             (EvalStep(t) /\ ~FiredStep(t)) => last_triggered' = last_triggered]_vars

C34_Witness ==
    /\ last_triggered[1] # None
    /\ last_triggered[2] = None
    /\ ret.value
    /\ Len(dispatched) >= 1
    /\ \E t \in Threads : pc[t] = "trim"

\* the channels through which the k-th dispatch delivered its Alert
DeliveredBy(k) ==
    { dispatched[k].sends[j].channel :
        j \in { i \in 1..Len(dispatched[k].sends) : dispatched[k].sends[i].result = "sent" } }

\* C35: with email and slack disabled and console enabled an Alert is
\* delivered through the console only and no send to a disabled channel fails
\* or raises; whatever the configuration, a channel whose enabled flag is false
\* delivers no Alert.
C35_DisabledChannelsAreSilent ==
    \A k \in 1..Len(dispatched) :
       /\ (config.notify = [email |-> FALSE, slack |-> FALSE, console |-> TRUE])
             => /\ DeliveredBy(k) \subseteq {"console"}
                /\ \A j \in 1..Len(dispatched[k].sends) :
                      dispatched[k].sends[j].channel # "console"
                         => dispatched[k].sends[j].result = "disabled"
       /\ \A c \in DeliveredBy(k) : config.notify[c]

\* the part of C35 about the configuration with only the console enabled
C35_DefaultsDeliverByConsole ==
    \A k \in 1..Len(dispatched) :
       (config.notify = [email |-> FALSE, slack |-> FALSE, console |-> TRUE])
          => /\ DeliveredBy(k) \subseteq {"console"}
             /\ \A j \in 1..Len(dispatched[k].sends) :
                   dispatched[k].sends[j].channel # "console"
                      => dispatched[k].sends[j].result = "disabled"

\* every value of the series is the same
ConstantSeries(values) == \A k \in 1..Len(values) : values[k] = values[1]

\* C36: the statistics of a series report cv_percent = std_dev / mean * 100,
\* and 0 when the mean is 0 or the series is constant; for a series of one
\* value they report a standard deviation of 0.
C36_SeriesStatistics ==
    series.done =>
       LET st == series.stats
           vs == series.values
       IN /\ st.reported
          /\ Len(vs) = 1 => st.std_dev_sq.num = 0
          /\ ConstantSeries(vs) => st.cv_percent_sq.num = 0
          /\ st.mean.num = 0 => st.cv_percent_sq.num = 0
          /\ st.mean.num # 0
                => st.cv_percent_sq.num * st.std_dev_sq.den * st.mean.num * st.mean.num
                   = st.cv_percent_sq.den * st.std_dev_sq.num * st.mean.den * st.mean.den * 10000

\* what C36 says of the series of two or more values
C36_LongerSeries ==
    (series.done /\ Len(series.values) > 1) =>
       LET st == series.stats
           vs == series.values
       IN /\ st.reported
          /\ ConstantSeries(vs) => st.cv_percent_sq.num = 0
          /\ st.mean.num = 0 => st.cv_percent_sq.num = 0
          /\ st.mean.num # 0
                => st.cv_percent_sq.num * st.std_dev_sq.den * st.mean.num * st.mean.num
                   = st.cv_percent_sq.den * st.std_dev_sq.num * st.mean.den * st.mean.den * 10000

\* the points of the experiment that is current in collector c
PointsOf(c) == c.runs[c.current_experiment].measurement_points

\* C37: record_measurement with an active experiment appends exactly one
\* point at the end of that experiment's points and leaves the earlier ones
\* as they were; without an active experiment record_measurement and
\* stop_experiment raise and change nothing.
C37_RecordAppendsOnePoint ==
    [][ mc_ret'.n # mc_ret.n =>
          /\ (mc_ret'.op = "record_measurement" /\ mc.current_experiment # 0) =>
                /\ mc_ret'.status = "returned"
                /\ mc'.current_experiment = mc.current_experiment
                /\ Len(PointsOf(mc')) = Len(PointsOf(mc)) + 1
                /\ SubSeq(PointsOf(mc'), 1, Len(PointsOf(mc))) = PointsOf(mc)
          /\ (mc_ret'.op \in {"record_measurement", "stop_experiment"}
                 /\ mc.current_experiment = 0) =>
                /\ mc_ret'.status = "raised"
                /\ mc' = mc ]_vars

\* what C37 says of the calls made without an active experiment
C37_InactiveCallsRaise ==
    [][ (mc_ret'.n # mc_ret.n /\ mc.current_experiment = 0
           /\ mc_ret'.op \in {"record_measurement", "stop_experiment"}) =>
          /\ mc_ret'.status = "raised"
          /\ mc_ret'.error = "RuntimeError"
          /\ mc' = mc ]_vars

\* the monitor threads whose run() has not returned
LiveMonitors == {t \in DOMAIN mc.threads : mc.threads[t] # "ended"}

\* the runs before the current one have been stopped and saved
EarlierRunsFinalized ==
    \A e \in DOMAIN mc.runs :
        e # mc.current_experiment => mc.runs[e].end_time_set /\ mc.runs[e].saved

\* C38: over any sequence of calls at most one resource-monitor thread of
\* the collector is running; start_experiment leaves the new experiment
\* active with its experiment_start point recorded and the previous one
\* stopped and saved; after stop_experiment there is no active experiment
\* and the monitor thread has been stopped.
C38_OneExperimentOneMonitor ==
    /\ Cardinality(LiveMonitors) <= 1
    /\ mc_ret.op = "start_experiment" =>
          /\ mc_ret.status = "returned"
          /\ mc.current_experiment = Len(mc.runs)
          /\ PointsOf(mc) = <<"experiment_start">>
          /\ EarlierRunsFinalized
    /\ (mc_ret.op = "stop_experiment" /\ mc_ret.error # "RuntimeError") =>
          /\ mc_ret.status = "returned"
          /\ mc.current_experiment = 0
          /\ LiveMonitors = {}

\* what holds of C38 whatever the calls: the collector has at most one
\* current experiment, and stop_experiment has set the stop_event of its monitor
C38_StopSetsStopEvent ==
    /\ mc.current_experiment \in 0..Len(mc.runs)
    /\ (mc_ret.op = "stop_experiment" /\ mc_ret.error # "RuntimeError") =>
          mc.threads[mc.resource_monitor] # "alive"

\* two monitor threads alive at once
C38_TwoMonitors == Cardinality(LiveMonitors) <= 1

\* successful + failed + cancelled <= completed <= total_experiments
CountsOrdered(results) ==
    /\ results.successful + results.failed + results.cancelled <= results.completed
    /\ results.completed <= TotalExperiments

====
